---- MODULE Spec2Model ----
(***************************************************************************)
(* OmniMind backend: the LangGraph workflow of src/agent/graph.py.         *)
(*                                                                         *)
(* One behaviour is one ingestion run: the AgentState record is threaded   *)
(* through vision -> classifier -> (research ->) save -> finalize, or to   *)
(* the error node.  Collaborators (completion service, search, storage,    *)
(* webhook) are modelled by the outcomes their calls can have; every node  *)
(* is one atomic action that applies the whole handler and then the        *)
(* graph's edge out of that node.                                          *)
(*                                                                         *)
(* Python values:  None is the token "None"; a string is a TLA+ string; a  *)
(* dict read only through .get() is a record whose missing keys hold None. *)
(***************************************************************************)
EXTENDS Naturals, Sequences, FiniteSets, TLC

VARIABLES
    raw_input,       \* AgentState.raw_input
    processed_data,  \* AgentState.processed_data
    category,        \* AgentState.category
    research_notes,  \* AgentState.research_notes
    metadata,        \* AgentState.metadata
    next_action,     \* AgentState.next_action
    n8n_webhook_url, \* settings.n8n_webhook_url (fixed during a run)
    pc,              \* the node the graph executes next, or "END"
    executed,        \* observation: the nodes that really executed, in order
    outcome,         \* observation: per node "none" | "ok" | "failed"
    calls,           \* observation: the collaborator calls made so far
    wf,              \* concurrent runs: per run its AgentState and position
    request,         \* concurrent runs: per run what its collaborators answer
    supabase_client, \* supabase_service._client, shared by all runs
    call_arg,        \* a utility called on its own: its argument
    call_result      \* a utility called on its own: what it returned

\* One run on its own, and the service running several at once.
run_vars == <<raw_input, processed_data, category, research_notes, metadata,
              next_action, n8n_webhook_url, pc, executed, outcome, calls>>
service_vars == <<wf, request, supabase_client>>
util_vars == <<call_arg, call_result>>

vars == <<raw_input, processed_data, category, research_notes, metadata,
          next_action, n8n_webhook_url, pc, executed, outcome, calls,
          wf, request, supabase_client, call_arg, call_result>>

None == "None"

\* Python truthiness of a value that is None or a string.
Truthy(x) == x # None /\ x # ""

(***************************************************************************)
(* Bounds of the model.                                                    *)
(***************************************************************************)
MaxReminders == 1

(***************************************************************************)
(* Value domains.                                                          *)
(***************************************************************************)
ValidUrl == "https://example.com/image.jpg"
InvalidUrl == "not-a-url"
SomeText == "electricity bill"
SomeBase64 == "aGVsbG8="

Nodes == {"vision", "classifier", "research", "save", "finalize", "error"}

\* src/agent/nodes/classifier.py:15
VALID_CATEGORIES == {"food", "warranty", "subscription", "reading"}

\* raw_input as AgentState allows it: a str, a dict, or anything else.  A key
\* a dict does not have holds None.
StrInput(s) ==
    [type |-> "str", str |-> s, image_url |-> None, image_base64 |-> None,
     text |-> None]
DictInput(url, b64, text) ==
    [type |-> "dict", str |-> None, image_url |-> url, image_base64 |-> b64,
     text |-> text]
RawInputs ==
    {StrInput(""), StrInput(ValidUrl), StrInput(SomeText),
     DictInput(None, SomeBase64, None),
     DictInput(InvalidUrl, None, SomeText),
     DictInput(None, None, None),
     [type |-> "other", str |-> None, image_url |-> None,
      image_base64 |-> None, text |-> None]}

\* Date strings a completion response may carry.
CanonicalDate == "2025-06-01"
PartialDate == "01/27"
GarbageDate == "not a date"
ShortYearDate == "1/5"
DateValues == {None, PartialDate, GarbageDate}

\* Amounts a completion response may carry (strings) and their parsed values.
AmountValues == {"28.463,66", "abc"}

\* The reminders a completion response may list: one without a date, one with
\* a partial date, one with a date nothing can repair.
Reminders ==
    {[label |-> "Cuota 1", due_date |-> None, amount |-> "abc"],
     [label |-> "Cuota 1", due_date |-> PartialDate, amount |-> "28.463,66"],
     [label |-> "Cuota 1", due_date |-> GarbageDate, amount |-> "28.463,66"]}

RECURSIVE SeqsUpTo(_, _)
SeqsUpTo(S, n) ==
    IF n = 0 THEN {<<>>}
    ELSE LET shorter == SeqsUpTo(S, n - 1)
         IN  shorter \cup {Append(s, e) : s \in {t \in shorter : Len(t) = n - 1}, e \in S}

\* processed_data: kind "null" is None; "emptydict" is {}; "emptyseq" is "" or [];
\* "nondict" is a non-empty str or list; "dict" is a non-empty dict.
NullData ==
    [kind |-> "null", item_name |-> None, expiry_date |-> None,
     issue_date |-> None, brand |-> None, total_amount |-> None,
     reminders |-> <<>>]

OfKind(k) == [NullData EXCEPT !.kind = k]

DictData ==
    [kind : {"dict"}, item_name : {None, "", "TV"},
     expiry_date : {None, CanonicalDate, GarbageDate},
     issue_date : {None}, brand : {None, "", "Acme"}, total_amount : {None},
     reminders : SeqsUpTo(Reminders, MaxReminders)]

\* bool(processed_data)
TruthyData(pd) == pd.kind \in {"dict", "nondict"}


(***************************************************************************)
(* Normalization utilities (src/core/utils.py), on the values a run of the *)
(* workflow carries.                                                       *)
(***************************************************************************)
CanonicalDates == {"2025-06-01", "2027-01-31", "2030-01-01"}

\* The float clean_currency returns, written as its decimal text.
ParsedAmounts == {"float 28463.66"}

\* clean_currency: "28.463,66" has both separators and the comma comes later,
\* so dots are dropped and the comma becomes the decimal point; "abc" makes
\* float() raise ValueError, which is caught; a falsy value returns None.
clean_currency(value) ==
    CASE ~Truthy(value)         -> None
      [] value = "28.463,66"    -> "float 28463.66"
      [] value \in ParsedAmounts -> value        \* str(28463.66) parses back
      [] OTHER                  -> None

\* An ISO timestamp as _format_expiry_date emits it.
IsoOf(d) ==
    CASE d = "2025-06-01" -> "2025-06-01T00:00:00Z"
      [] d = "2027-01-31" -> "2027-01-31T00:00:00Z"
      [] d = "2030-01-01" -> "2030-01-01T00:00:00Z"

IsoTimestamps == {IsoOf(d) : d \in CanonicalDates}

DateOfIso(t) == CHOOSE d \in CanonicalDates : IsoOf(d) = t

\* validate_and_fix_date: MM/YY goes to the last day of the month; a date
\* dateutil parses is re-emitted as yyyy-mm-dd; anything else returns None.
validate_and_fix_date(date_str) ==
    CASE ~Truthy(date_str)            -> None
      [] date_str = PartialDate       -> "2027-01-31"
      [] date_str = ShortYearDate     -> "5-01-31"   \* the year is not padded
      [] date_str \in CanonicalDates  -> date_str
      [] date_str \in IsoTimestamps   -> DateOfIso(date_str)
      [] OTHER                        -> None

(***************************************************************************)
(* The threaded record and its metadata.                                   *)
(***************************************************************************)
\* The metadata dict; a key that is absent holds None (FALSE for a flag the
\* code only ever sets to True, <<>> for a list).
EmptyMetadata ==
    [request_received |-> TRUE,
     error |-> None, error_node |-> None,
     vision_node_executed |-> FALSE, classifier_node_executed |-> FALSE,
     classification_reasoning |-> None,
     research_node_executed |-> FALSE, search_queries |-> <<>>,
     save_node_executed |-> FALSE, item_id |-> None, save_error |-> None,
     finalize_node_executed |-> FALSE, error_node_executed |-> FALSE,
     nodes_executed |-> <<>>]

\* What the caller may put in the request's metadata (main.py merges it in).
CallerMetadata ==
    {EmptyMetadata, [EmptyMetadata EXCEPT !.error = "caller supplied"]}

State ==
    [raw_input |-> raw_input, processed_data |-> processed_data,
     category |-> category, research_notes |-> research_notes,
     metadata |-> metadata, next_action |-> next_action]

NoCalls ==
    [llm_vision |-> 0,           \* completion calls made by vision_node
     llm_classifier |-> <<>>,    \* responses classifier_node received
     llm_synthesis |-> 0,        \* completion calls made by research
     search |-> <<>>,            \* queries searched
     search_results |-> <<>>,    \* what perform_search returned for each
     insert_item |-> <<>>,       \* outcomes of the insert_item calls
     insert_reminder |-> <<>>,   \* reminder dicts submitted, with results
     webhook |-> 0,              \* webhook posts
     webhook_failures |-> 0]     \* webhook posts that raised

(***************************************************************************)
(* vision node (src/agent/nodes/vision.py).                                *)
(***************************************************************************)
_is_valid_url(url) == url = ValidUrl

\* The content list _prepare_image_content builds is non-empty.
_prepare_image_content(image_url, image_base64) ==
    (Truthy(image_url) /\ _is_valid_url(image_url)) \/ Truthy(image_base64)

\* vision.py:77-89: the three input variables read off raw_input.
InputVariants(raw) ==
    IF raw.type = "str"
    THEN LET url == IF _is_valid_url(raw.str) THEN raw.str ELSE None
         IN  [image_url |-> url, image_base64 |-> None,
              text_input |-> IF Truthy(url) THEN None ELSE raw.str]
    ELSE IF raw.type = "dict"
    THEN [image_url |-> raw.image_url, image_base64 |-> raw.image_base64,
          text_input |-> raw.text]
    ELSE [image_url |-> None, image_base64 |-> None, text_input |-> None]

\* "image" | "text" | "invalid image" | "no input"
InputPath(raw) ==
    LET v == InputVariants(raw)
    IN  IF Truthy(v.image_url) \/ Truthy(v.image_base64)
        THEN IF _prepare_image_content(v.image_url, v.image_base64)
             THEN "image" ELSE "invalid image"
        ELSE IF Truthy(v.text_input) THEN "text" ELSE "no input"

\* What the completion call of vision_node can produce: the call raises, the
\* text is not JSON, or the JSON value parsed (of any JSON type).
VisionResponses ==
    [kind : {"raise", "badjson"}, value : {NullData}]
    \cup [kind : {"json"},
          value : {OfKind("null"), OfKind("number"), OfKind("emptydict"),
                   OfKind("emptyseq"), OfKind("nondict")} \cup DictData]

\* vision.py:146-153 and 201-218: the reminder loop of each path.
CleanReminder(r, path) ==
    [label |-> r.label,
     amount |-> clean_currency(r.amount),
     due_date |-> IF path = "text" THEN validate_and_fix_date(r.due_date)
                  ELSE r.due_date]

RECURSIVE CleanReminders(_, _)
CleanReminders(reminders, path) ==
    IF reminders = <<>> THEN <<>>
    ELSE <<CleanReminder(Head(reminders), path)>>
         \o CleanReminders(Tail(reminders), path)

CleanData(pd, path) ==
    IF pd.kind = "dict"
    THEN [pd EXCEPT !.reminders = CleanReminders(pd.reminders, path)]
    ELSE pd

\* Mutant: a JSON null or number is accepted as the extracted data.
VisionError_accepts_null(raw, resp) ==
    CASE InputPath(raw) = "no input" ->
            "no valid input provided: need image_url, image_base64, or text"
      [] InputPath(raw) = "invalid image" ->
            "invalid image input: neither url nor base64 provided"
      [] resp.kind = "raise"   -> "completion service error"
      [] resp.kind = "badjson" -> "Expecting value: line 1 column 1 (char 0)"
      [] OTHER -> None

\* The exception vision_node's try block raises, or None.
VisionError(raw, resp) ==
    CASE InputPath(raw) = "no input" ->
            "no valid input provided: need image_url, image_base64, or text"
      [] InputPath(raw) = "invalid image" ->
            "invalid image input: neither url nor base64 provided"
      [] resp.kind = "raise"   -> "completion service error"
      [] resp.kind = "badjson" -> "Expecting value: line 1 column 1 (char 0)"
      [] resp.value.kind \in {"null", "number"} ->
            "argument of this type is not iterable"
      [] OTHER -> None

\* Mutant: the failure path also resets processed_data to an empty dict.
VisionFailurePath_resets_data(st, err) ==
    [st EXCEPT !.metadata = [st.metadata EXCEPT !.error = err,
                                                !.error_node = "vision"],
               !.processed_data = OfKind("emptydict"),
               !.next_action = "error"]

VisionFailurePath(st, err) ==
    [st EXCEPT !.metadata = [st.metadata EXCEPT !.error = err,
                                                !.error_node = "vision"],
               !.next_action = "error"]

VisionSuccessPath(st, data) ==
    [st EXCEPT !.processed_data = data,
               !.metadata = [st.metadata EXCEPT
                                !.vision_node_executed = TRUE,
                                !.nodes_executed = Append(@, "vision")]]

vision_node(st, resp) ==
    LET err == VisionError(st.raw_input, resp)
    IN  IF err # None
        THEN VisionFailurePath(st, err)
        ELSE VisionSuccessPath(st, CleanData(resp.value, InputPath(st.raw_input)))

\* Whether vision_node reached llm.invoke.
VisionCallsLlm(raw) == InputPath(raw) \in {"image", "text"}

(***************************************************************************)
(* Routing after vision (src/agent/graph.py).                              *)
(***************************************************************************)
\* Mutant: the check of processed_data is forgotten.
route_after_vision_flag_only(st) ==
    IF st.next_action = "error" THEN "error" ELSE "classifier"

route_after_vision(st) ==
    IF st.next_action = "error" \/ ~TruthyData(st.processed_data)
    THEN "error"
    ELSE "classifier"


(***************************************************************************)
(* classifier node (src/agent/nodes/classifier.py).                        *)
(***************************************************************************)
\* A JSON value that is neither a string nor null (a number, a list, ...).
NonText == "<non-text>"

\* What the completion call of classifier_node can produce.  In a parsed
\* dict, category "" stands for a missing key (the .get default).
ClassifierResponses ==
    [kind : {"raise", "badjson", "nondict"}, category : {None}]
    \cup [kind : {"json"},
          category : VALID_CATEGORIES \cup {"", None, NonText, "Warranty", "toys"}]

\* str.lower()
lower(s) == IF s = "Warranty" THEN "warranty" ELSE s

\* The exception classifier_node's try block raises after its guard, or None.
ClassifierError(st, resp) ==
    CASE st.processed_data.kind # "dict" ->
            "object has no attribute 'get'"
      [] resp.kind = "raise"   -> "completion service error"
      [] resp.kind = "badjson" -> "Expecting value: line 1 column 1 (char 0)"
      [] resp.kind = "nondict" -> "object has no attribute 'get'"
      [] resp.category \in {None, NonText} ->
            "object has no attribute 'lower'"
      [] OTHER -> None

\* classifier.py:72-77
ValidatedCategory(resp) ==
    LET c == lower(resp.category)
    IN  IF c \notin VALID_CATEGORIES THEN "food" ELSE c

\* Mutant: a category other than warranty gives next_action "continue".
ProvisionalAction_continue(c) ==
    IF c \in {"warranty"} THEN "research" ELSE "continue"

\* classifier.py:80-83
ProvisionalAction(c) == IF c \in {"warranty"} THEN "research" ELSE "finalize"

\* Mutant: the failure is recorded but next_action is not set to "error".
ClassifierFailurePath_not_fatal(st, err) ==
    [st EXCEPT !.metadata = [st.metadata EXCEPT !.error = err,
                                                !.error_node = "classifier"]]

ClassifierFailurePath(st, err) ==
    [st EXCEPT !.metadata = [st.metadata EXCEPT !.error = err,
                                                !.error_node = "classifier"],
               !.next_action = "error"]

ClassifierSuccessPath(st, c) ==
    [st EXCEPT !.category = c,
               !.next_action = ProvisionalAction(c),
               !.metadata = [st.metadata EXCEPT
                                !.classifier_node_executed = TRUE,
                                !.classification_reasoning = "brief explanation",
                                !.nodes_executed = Append(@, "classifier")]]

classifier_node(st, resp) ==
    IF ~TruthyData(st.processed_data)
    THEN ClassifierFailurePath(st, "no processed_data available for classification")
    ELSE LET err == ClassifierError(st, resp)
         IN  IF err # None
             THEN ClassifierFailurePath(st, err)
             ELSE ClassifierSuccessPath(st, ValidatedCategory(resp))

ClassifierFails(st, resp) ==
    ~TruthyData(st.processed_data) \/ ClassifierError(st, resp) # None

\* Whether classifier_node reached llm.invoke.
ClassifierCallsLlm(st) == st.processed_data.kind = "dict"

(***************************************************************************)
(* Routing after classifier (src/agent/graph.py).                          *)
(***************************************************************************)
\* Mutant: "reading" is left out of the categories that may need research.
route_after_classifier_no_reading(st) ==
    IF st.next_action = "error" THEN "error"
    ELSE IF /\ st.category \in {"warranty", "food"}
            /\ Truthy(st.processed_data.item_name)
            /\ \/ ~Truthy(st.processed_data.brand)
               \/ (st.category = "warranty" /\ ~Truthy(st.processed_data.expiry_date))
         THEN "research"
         ELSE "save"

\* Mutant: a failed classification is routed like a successful one.
route_after_classifier_ignores_failure(st) ==
    IF /\ st.category \in {"warranty", "food", "reading"}
       /\ st.processed_data.kind = "dict"
       /\ Truthy(st.processed_data.item_name)
       /\ \/ ~Truthy(st.processed_data.brand)
          \/ (st.category = "warranty" /\ ~Truthy(st.processed_data.expiry_date))
    THEN "research"
    ELSE "save"

route_after_classifier(st) ==
    IF st.next_action = "error" THEN "error"
    ELSE IF /\ st.category \in {"warranty", "food", "reading"}
            /\ Truthy(st.processed_data.item_name)
            /\ \/ ~Truthy(st.processed_data.brand)
               \/ (st.category = "warranty" /\ ~Truthy(st.processed_data.expiry_date))
         THEN "research"
         ELSE "save"


(***************************************************************************)
(* research node (src/agent/nodes/research.py).                            *)
(***************************************************************************)
\* Mutant: only a missing brand makes research run.
_should_research_brand_only(st) ==
    IF st.category \notin {"warranty", "food", "reading"} THEN FALSE
    ELSE IF ~Truthy(st.processed_data.item_name) THEN FALSE
    ELSE IF ~Truthy(st.processed_data.brand) THEN TRUE
    ELSE FALSE

\* Mutant: research is wanted for warranties only.
_should_research_warranty_only(st) ==
    IF st.category # "warranty" THEN FALSE
    ELSE IF ~Truthy(st.processed_data.item_name) THEN FALSE
    ELSE IF ~Truthy(st.processed_data.brand) THEN TRUE
    ELSE ~Truthy(st.processed_data.expiry_date)

_should_research(st) ==
    IF st.category \notin {"warranty", "food", "reading"} THEN FALSE
    ELSE IF ~Truthy(st.processed_data.item_name) THEN FALSE
    ELSE IF ~Truthy(st.processed_data.brand) THEN TRUE
    ELSE IF st.category = "warranty" /\ ~Truthy(st.processed_data.expiry_date) THEN TRUE
    ELSE FALSE

\* f"{item_name} manufacturer" and f"standard warranty for {item_name}"
ManufacturerQuery(item_name) == [form |-> "manufacturer", item_name |-> item_name]
WarrantyQuery(item_name) == [form |-> "standard warranty for", item_name |-> item_name]

\* Mutant: the standard-warranty query is asked for every category.
_build_search_queries_any_category(st) ==
    LET item_name == st.processed_data.item_name
    IN  (IF ~Truthy(st.processed_data.brand)
         THEN <<ManufacturerQuery(item_name)>> ELSE <<>>)
        \o
        (IF ~Truthy(st.processed_data.expiry_date)
         THEN <<WarrantyQuery(item_name)>> ELSE <<>>)

_build_search_queries(st) ==
    LET item_name == st.processed_data.item_name
    IN  (IF ~Truthy(st.processed_data.brand)
         THEN <<ManufacturerQuery(item_name)>> ELSE <<>>)
        \o
        (IF st.category = "warranty" /\ ~Truthy(st.processed_data.expiry_date)
         THEN <<WarrantyQuery(item_name)>> ELSE <<>>)

\* What one search can do: the tool raises, or returns "" or some text.
SearchOutcomes == {"raise", "", "some results"}

\* search_service.py:29-51: an exception or an empty result gives "".
perform_search(out) == IF out = "raise" THEN "" ELSE out

\* What the completion call of _synthesize_search_results can produce.
\* research_summary "" stands for a missing key (the .get default).
SynthesisResponses ==
    [kind : {"raise", "badjson", "nondict"},
     brand : {None}, expiry_date : {None}, research_summary : {""}]
    \cup [kind : {"json"}, brand : {None, "Sony"},
          expiry_date : {None, "2030-01-01"},
          research_summary : {"", "found on the manufacturer's site"}]

\* Mutant: whatever the synthesis found replaces what the record held.
_synthesize_search_results_overwrites(pd, resp) ==
    IF resp.kind # "json"
    THEN [data |-> pd, summary |-> ""]
    ELSE [data |->
             [pd EXCEPT
                !.brand = IF Truthy(resp.brand) THEN resp.brand ELSE @,
                !.expiry_date = IF Truthy(resp.expiry_date)
                                THEN resp.expiry_date ELSE @],
          summary |-> resp.research_summary]

\* research.py:76-140: the pair (updated_data, research_summary).
_synthesize_search_results(pd, resp) ==
    IF resp.kind # "json"
    THEN [data |-> pd, summary |-> ""]
    ELSE [data |->
             [pd EXCEPT
                !.brand = IF Truthy(resp.brand) /\ ~Truthy(pd.brand)
                          THEN resp.brand ELSE @,
                !.expiry_date = IF Truthy(resp.expiry_date) /\ ~Truthy(pd.expiry_date)
                                THEN resp.expiry_date ELSE @],
          summary |-> resp.research_summary]

\* combined_results[:500]
Excerpt == "combined results, first 500 characters"
NoResultsNote == "search performed but no results found"

ResearchExecuted(st) ==
    [st EXCEPT !.metadata = [st.metadata EXCEPT
                                !.research_node_executed = TRUE,
                                !.nodes_executed = Append(@, "research")]]

\* The queries of st whose search gave a non-empty result.
SearchHits(queries, outs) ==
    {i \in 1..Len(queries) : perform_search(outs[i]) # ""}

\* Mutant: the synthesis runs even when no search gave a result.
research_node_always_synthesizes(st, outs, resp) ==
    IF ~_should_research(st) THEN ResearchExecuted(st)
    ELSE LET queries == _build_search_queries(st)
             syn == _synthesize_search_results(st.processed_data, resp)
             done == [st EXCEPT
                        !.processed_data = syn.data,
                        !.research_notes =
                            IF Truthy(syn.summary) THEN syn.summary
                            ELSE Excerpt]
         IN  IF queries = <<>> THEN ResearchExecuted(st)
             ELSE [ResearchExecuted(done) EXCEPT
                      !.metadata.search_queries = queries]

\* outs[i] is the outcome of the i-th search; resp that of the synthesis call.
\* The except branch (research.py:220-228) is not taken in a run of the graph:
\* perform_search and _synthesize_search_results catch their own exceptions,
\* and processed_data is a dict whenever the graph reaches this node.
research_node(st, outs, resp) ==
    IF ~_should_research(st) THEN ResearchExecuted(st)
    ELSE LET queries == _build_search_queries(st)
         IN  IF queries = <<>> THEN ResearchExecuted(st)
             ELSE IF SearchHits(queries, outs) = {}
             THEN ResearchExecuted([st EXCEPT !.research_notes = NoResultsNote])
             ELSE LET syn == _synthesize_search_results(st.processed_data, resp)
                      done == [st EXCEPT
                                 !.processed_data = syn.data,
                                 !.research_notes =
                                     IF Truthy(syn.summary) THEN syn.summary
                                     ELSE Excerpt]
                  IN  [ResearchExecuted(done) EXCEPT
                          !.metadata.search_queries = queries]

\* The searches research_node issues, and whether it calls the completion service.
ResearchSearches(st) ==
    IF _should_research(st) THEN _build_search_queries(st) ELSE <<>>

ResearchCallsLlm(st, outs) ==
    SearchHits(ResearchSearches(st), outs) # {}

\* Mutant: research is wired to the error node.
edge_after_research_to_error == "error"

\* Mutant: save is wired back to itself.
edge_after_save_loop == "save"

\* The edges out of research and save (graph.py:145-146).
edge_after_research == "save"
edge_after_save == "finalize"


(***************************************************************************)
(* save node (src/agent/nodes/save.py) and the storage service             *)
(* (src/services/supabase_service.py).                                     *)
(***************************************************************************)
WebhookUrl == "https://n8n.example.com/webhook"
ItemId == "item-1"

_format_expiry_date(expiry_date) ==
    CASE ~Truthy(expiry_date)            -> None
      [] expiry_date \in IsoTimestamps   -> expiry_date
      [] expiry_date \in CanonicalDates  -> IsoOf(expiry_date)
      [] OTHER                           -> expiry_date   \* strptime raised

\* What insert_item can do: raise, or return a row with or without an id.
InsertItemOutcomes == {"raise", "row without id", "row"}
InsertReminderOutcomes == {"raise", "row"}
WebhookOutcomes == {"raise", "ok"}

\* save.py:157-161: the reminder synthesized from the item's expiry_date.
FallbackLabel == "vencimiento único"

\* Mutant: the fallback reminder replaces the reminders the item came with.
CandidateReminders_always(pd, item_id) ==
    IF Truthy(item_id) /\ Truthy(pd.expiry_date)
       /\ validate_and_fix_date(pd.expiry_date) # None
    THEN <<[label |-> FallbackLabel,
            due_date |-> validate_and_fix_date(pd.expiry_date),
            amount |-> pd.total_amount]>>
    ELSE pd.reminders

\* save.py:141-163: the reminders the loop runs over.
CandidateReminders(pd, item_id) ==
    IF pd.reminders = <<>> /\ Truthy(item_id)
    THEN IF Truthy(pd.expiry_date) /\ validate_and_fix_date(pd.expiry_date) # None
         THEN <<[label |-> FallbackLabel,
                 due_date |-> validate_and_fix_date(pd.expiry_date),
                 amount |-> pd.total_amount]>>
         ELSE pd.reminders
    ELSE pd.reminders

\* Mutant: a due date nothing can repair is submitted as it stands.
ResolveDueDate_keeps_raw(reminder, pd) ==
    IF Truthy(reminder.due_date) THEN reminder.due_date
    ELSE IF Truthy(pd.expiry_date) THEN pd.expiry_date ELSE None

\* Mutant: the item's expiry_date is tried before the reminder's own date.
ResolveDueDate_prefers_expiry(reminder, pd) ==
    LET item == IF Truthy(pd.expiry_date)
                THEN validate_and_fix_date(pd.expiry_date) ELSE None
    IN  IF item # None THEN item
        ELSE IF Truthy(reminder.due_date)
             THEN validate_and_fix_date(reminder.due_date)
             ELSE None

\* save.py:170-200: the due date of one reminder, None when it is dropped.
ResolveDueDate(reminder, pd) ==
    LET own == IF Truthy(reminder.due_date)
               THEN validate_and_fix_date(reminder.due_date) ELSE None
    IN  IF own # None THEN own
        ELSE IF Truthy(pd.expiry_date)
             THEN validate_and_fix_date(pd.expiry_date)
             ELSE None

\* Mutant: the reminder is not tagged with the item's id.
ReminderData_untagged(reminder, due, item_id) ==
    [item_id |-> None, label |-> reminder.label,
     due_date |-> _format_expiry_date(due), amount |-> reminder.amount]

\* save.py:202-209: the dict handed to insert_reminder.
ReminderData(reminder, due, item_id) ==
    [item_id |-> item_id, label |-> reminder.label,
     due_date |-> _format_expiry_date(due), amount |-> reminder.amount]

\* supabase_service.py:64-120: "rejected" when due_date is null after the
\* service's own canonicalization, else what the table insert did.
insert_reminder(reminder_data, out) ==
    IF validate_and_fix_date(reminder_data.due_date) = None THEN "rejected"
    ELSE IF out = "raise" THEN "failed" ELSE "stored"

RECURSIVE SubmittedReminders_stops_at_failure(_, _, _, _, _)
\* Mutant: the loop ends at the first insert_reminder that raises.
SubmittedReminders_stops_at_failure(cands, pd, item_id, outs, i) ==
    IF i > Len(cands) THEN <<>>
    ELSE LET due == ResolveDueDate(cands[i], pd)
             data == ReminderData(cands[i], due, item_id)
             res == insert_reminder(data, outs[i])
         IN  IF due = None
             THEN SubmittedReminders_stops_at_failure(cands, pd, item_id, outs, i + 1)
             ELSE IF res = "failed" THEN <<[data |-> data, result |-> res]>>
             ELSE <<[data |-> data, result |-> res]>>
                  \o SubmittedReminders_stops_at_failure(cands, pd, item_id, outs, i + 1)

RECURSIVE SubmittedReminders(_, _, _, _, _)
\* The insert_reminder calls of the loop, from index i on, with their results.
SubmittedReminders(cands, pd, item_id, outs, i) ==
    IF i > Len(cands) THEN <<>>
    ELSE LET due == ResolveDueDate(cands[i], pd)
             rest == SubmittedReminders(cands, pd, item_id, outs, i + 1)
         IN  IF due = None THEN rest
             ELSE LET data == ReminderData(cands[i], due, item_id)
                  IN  <<[data |-> data, result |-> insert_reminder(data, outs[i])]>>
                      \o rest

\* Mutant: a reminder whose insert failed is submitted a second time.
SaveSubmits_retry(st, item_out, outs) ==
    LET item_id == IF item_out = "row" THEN ItemId ELSE None
        cands == CandidateReminders(st.processed_data, item_id)
        once == IF item_out = "raise" \/ st.processed_data.kind # "dict" THEN <<>>
                ELSE IF cands # <<>> /\ Truthy(item_id)
                     THEN SubmittedReminders(cands, st.processed_data, item_id, outs, 1)
                     ELSE <<>>
        IsFailed(e) == e.result = "failed"
    IN  once \o SelectSeq(once, IsFailed)

\* save.py:165: the loop runs only with an item id.
SaveSubmits(st, item_out, outs) ==
    LET item_id == IF item_out = "row" THEN ItemId ELSE None
        cands == CandidateReminders(st.processed_data, item_id)
    IN  IF item_out = "raise" \/ st.processed_data.kind # "dict" THEN <<>>
        ELSE IF cands # <<>> /\ Truthy(item_id)
             THEN SubmittedReminders(cands, st.processed_data, item_id, outs, 1)
             ELSE <<>>

\* Mutant: the webhook is posted whatever the item write did.
SaveCallsWebhook_after_failure(st, url, item_out) ==
    /\ st.processed_data.kind = "dict"
    /\ Truthy(st.next_action) /\ st.next_action # "complete" /\ Truthy(url)

\* save.py:219-220
SaveCallsWebhook(st, url, item_out) ==
    /\ item_out # "raise"
    /\ st.processed_data.kind = "dict"
    /\ Truthy(st.next_action) /\ st.next_action # "complete" /\ Truthy(url)

\* Whether save_node reached insert_item.
SaveCallsInsertItem(st) == st.processed_data.kind = "dict"

\* supabase_service.py:82-108: the row insert_reminder hands to the table.
StoredRow(reminder_data) ==
    [reminder_data EXCEPT
        !.amount = clean_currency(@),
        !.due_date = IF Truthy(@) THEN validate_and_fix_date(@) ELSE None]

\* Mutant: a failed item write is treated like a failed extraction.
SaveFailurePath_fatal(st, err) ==
    [st EXCEPT !.metadata = [st.metadata EXCEPT
                                !.save_error = err,
                                !.nodes_executed = Append(@, "save")],
               !.next_action = "error"]

SaveFailurePath(st, err) ==
    [st EXCEPT !.metadata = [st.metadata EXCEPT
                                !.save_error = err,
                                !.nodes_executed = Append(@, "save")]]

\* Mutant: save empties the reminders of the record once they are submitted.
SaveSuccessPath_drops_reminders(st, item_id) ==
    [st EXCEPT !.metadata = [st.metadata EXCEPT
                                !.save_node_executed = TRUE,
                                !.item_id = item_id,
                                !.nodes_executed = Append(@, "save")],
               !.processed_data = [st.processed_data EXCEPT !.reminders = <<>>]]

SaveSuccessPath(st, item_id) ==
    [st EXCEPT !.metadata = [st.metadata EXCEPT
                                !.save_node_executed = TRUE,
                                !.item_id = item_id,
                                !.nodes_executed = Append(@, "save")]]

\* Mutant: an exception of the webhook post reaches the outer except.
save_node_webhook_fatal(st, url, item_out, hook) ==
    IF st.processed_data.kind # "dict"
    THEN SaveFailurePath(st, "object has no attribute 'get'")
    ELSE IF item_out = "raise"
    THEN SaveFailurePath(st, "error inserting item")
    ELSE IF SaveCallsWebhook(st, url, item_out) /\ hook = "raise"
    THEN SaveFailurePath(st, "error calling n8n webhook")
    ELSE SaveSuccessPath(st, IF item_out = "row" THEN ItemId ELSE None)

\* hook is the outcome of the webhook post, if one is made: its exception is
\* caught where it is raised (save.py:234-235) and only logged.
save_node(st, url, item_out, hook) ==
    IF st.processed_data.kind # "dict"
    THEN SaveFailurePath(st, "object has no attribute 'get'")
    ELSE IF item_out = "raise"
    THEN SaveFailurePath(st, "error inserting item")
    ELSE SaveSuccessPath(st, IF item_out = "row" THEN ItemId ELSE None)

(***************************************************************************)
(* finalize and error nodes (src/agent/graph.py).                          *)
(***************************************************************************)
\* Mutant: finalize records its execution and leaves next_action alone.
finalize_node_keeps_action(st) ==
    [st EXCEPT !.metadata = [st.metadata EXCEPT
                                !.finalize_node_executed = TRUE,
                                !.nodes_executed = Append(@, "finalize")]]

finalize_node(st) ==
    [st EXCEPT !.next_action = "complete",
               !.metadata = [st.metadata EXCEPT
                                !.finalize_node_executed = TRUE,
                                !.nodes_executed = Append(@, "finalize")]]

error_node(st) ==
    [st EXCEPT !.next_action = "error",
               !.metadata = [st.metadata EXCEPT
                                !.error_node_executed = TRUE,
                                !.nodes_executed = Append(@, "error")]]

(***************************************************************************)
(* The run: main.py builds the initial state, the graph executes nodes.    *)
(***************************************************************************)
Init ==
    /\ raw_input \in RawInputs
    /\ processed_data = NullData
    /\ category = None
    /\ research_notes = None
    /\ metadata \in CallerMetadata
    /\ next_action = None
    /\ n8n_webhook_url \in {None, WebhookUrl}
    /\ pc = "vision"
    /\ executed = <<>>
    /\ outcome = [n \in Nodes |-> "none"]
    /\ calls = NoCalls
    /\ wf = <<>> /\ request = <<>> /\ supabase_client = None
    /\ call_arg = <<>> /\ call_result = <<>>

\* The node's returned dict overwrites every channel of the state.
Write(st) ==
    /\ raw_input' = st.raw_input
    /\ processed_data' = st.processed_data
    /\ category' = st.category
    /\ research_notes' = st.research_notes
    /\ metadata' = st.metadata
    /\ next_action' = st.next_action

Ran(node, result) ==
    /\ executed' = Append(executed, node)
    /\ outcome' = [outcome EXCEPT ![node] = result]
    /\ UNCHANGED n8n_webhook_url
    /\ UNCHANGED <<service_vars, util_vars>>

VisionStep ==
    /\ pc = "vision"
    /\ \E resp \in VisionResponses :
          LET new == vision_node(State, resp)
          IN  /\ Write(new)
              /\ pc' = route_after_vision(new)
              /\ Ran("vision", IF VisionError(raw_input, resp) # None
                               THEN "failed" ELSE "ok")
              /\ calls' = [calls EXCEPT !.llm_vision =
                              IF VisionCallsLlm(raw_input) THEN @ + 1 ELSE @]

ClassifierStep ==
    /\ pc = "classifier"
    /\ \E resp \in ClassifierResponses :
          LET new == classifier_node(State, resp)
          IN  /\ Write(new)
              /\ pc' = route_after_classifier(new)
              /\ Ran("classifier", IF ClassifierFails(State, resp)
                                   THEN "failed" ELSE "ok")
              /\ calls' = [calls EXCEPT !.llm_classifier =
                              IF ClassifierCallsLlm(State)
                              THEN Append(@, resp) ELSE @]

ResearchStep ==
    /\ pc = "research"
    /\ \E outs \in [1..2 -> SearchOutcomes], resp \in SynthesisResponses :
          LET new == research_node(State, outs, resp)
              searches == ResearchSearches(State)
              failed == \/ \E i \in 1..Len(searches) : outs[i] = "raise"
                        \/ ResearchCallsLlm(State, outs) /\ resp.kind # "json"
          IN  /\ Write(new)
              /\ pc' = edge_after_research
              /\ Ran("research", IF failed THEN "failed" ELSE "ok")
              /\ calls' = [calls EXCEPT
                              !.search = @ \o searches,
                              !.search_results =
                                  @ \o [i \in 1..Len(searches) |->
                                           perform_search(outs[i])],
                              !.llm_synthesis =
                                  IF ResearchCallsLlm(State, outs) THEN @ + 1 ELSE @]

SaveStep ==
    /\ pc = "save"
    /\ \E item_out \in InsertItemOutcomes,
          outs \in [1..MaxReminders -> InsertReminderOutcomes],
          hook \in WebhookOutcomes :
          LET new == save_node(State, n8n_webhook_url, item_out, hook)
              posts == SaveCallsWebhook(State, n8n_webhook_url, item_out)
          IN  /\ Write(new)
              /\ pc' = edge_after_save
              /\ Ran("save", IF new.metadata.save_error # None
                             THEN "failed" ELSE "ok")
              /\ calls' = [calls EXCEPT
                              !.insert_item =
                                  IF SaveCallsInsertItem(State)
                                  THEN Append(@, item_out) ELSE @,
                              !.insert_reminder =
                                  @ \o SaveSubmits(State, item_out, outs),
                              !.webhook = IF posts THEN @ + 1 ELSE @,
                              !.webhook_failures =
                                  IF posts /\ hook = "raise" THEN @ + 1 ELSE @]

FinalizeStep ==
    /\ pc = "finalize"
    /\ Write(finalize_node(State))
    /\ pc' = "END"
    /\ Ran("finalize", "ok")
    /\ UNCHANGED calls

ErrorStep ==
    /\ pc = "error"
    /\ Write(error_node(State))
    /\ pc' = "END"
    /\ Ran("error", "ok")
    /\ UNCHANGED calls

Next ==
    \/ VisionStep
    \/ ClassifierStep
    \/ ResearchStep
    \/ SaveStep
    \/ FinalizeStep
    \/ ErrorStep

Spec == Init /\ [][Next]_vars

\* Every stage is a blocking call that returns: the graph keeps stepping
\* until it reaches END.
FairSpec == Spec /\ WF_vars(Next)


\* research_node called on its own, with any record a caller can hand it:
\* a dict of fields and any category the classifier can leave.
ResearchInit ==
    /\ raw_input = StrInput(SomeText)
    /\ processed_data \in DictData
    /\ category \in VALID_CATEGORIES
    /\ research_notes = None
    /\ metadata = EmptyMetadata
    /\ next_action \in {"research", "finalize"}
    /\ n8n_webhook_url = None
    /\ pc = "research"
    /\ executed = <<>>
    /\ outcome = [n \in Nodes |-> "none"]
    /\ calls = NoCalls
    /\ wf = <<>> /\ request = <<>> /\ supabase_client = None
    /\ call_arg = <<>> /\ call_result = <<>>

ResearchSpec == ResearchInit /\ [][ResearchStep]_vars


(***************************************************************************)
(* The service (src/app/main.py): every call of ingest_item builds its own *)
(* initial state and awaits graph_app.ainvoke on it, so several runs are   *)
(* in progress at once.  What they share is the compiled graph, the        *)
(* settings and the supabase_service object with its lazily created        *)
(* client.  A run's collaborator answers are fixed in request so that the  *)
(* same run can be replayed alone.                                         *)
(***************************************************************************)
MaxRuns == 2
Runs == 1..MaxRuns

Fields(brand, expiry_date) ==
    [NullData EXCEPT !.kind = "dict", !.item_name = "TV",
                     !.brand = brand, !.expiry_date = expiry_date]

Answers(v, c, s, y, i) ==
    [vision |-> v, classifier |-> c, searches |-> [k \in 1..2 |-> s],
     synthesis |-> y, item |-> i, hook |-> "ok"]

\* The runs the service is given: extraction fails; extraction finds nothing;
\* classification fails; a complete food item; a warranty item researched
\* and filled in; a food item whose searches and item write fail.
Scenarios ==
    LET vbad == [kind |-> "badjson", value |-> NullData]
        vempty == [kind |-> "json", value |-> OfKind("emptydict")]
        vfull == [kind |-> "json", value |-> Fields("Acme", CanonicalDate)]
        vbare == [kind |-> "json", value |-> Fields(None, None)]
        cbad == [kind |-> "badjson", category |-> None]
        cfood == [kind |-> "json", category |-> "food"]
        cwarranty == [kind |-> "json", category |-> "warranty"]
        ybad == [kind |-> "badjson", brand |-> None, expiry_date |-> None,
                 research_summary |-> ""]
        yfound == [kind |-> "json", brand |-> "Sony",
                   expiry_date |-> "2030-01-01",
                   research_summary |-> "found on the manufacturer's site"]
    IN  {Answers(vbad, cbad, "", ybad, "row"),
         Answers(vempty, cfood, "", ybad, "row"),
         Answers(vfull, cbad, "", ybad, "row"),
         Answers(vfull, cfood, "", ybad, "row"),
         Answers(vbare, cwarranty, "some results", yfound, "row"),
         Answers(vbare, cfood, "raise", ybad, "raise")}

\* main.py:171-182
InitialState(raw) ==
    [raw_input |-> raw, processed_data |-> NullData, category |-> None,
     research_notes |-> None, metadata |-> EmptyMetadata, next_action |-> None]

ServiceInit ==
    /\ request \in [Runs -> [raw_input : {StrInput(SomeText)}, answers : Scenarios]]
    /\ wf = [r \in Runs |-> [state |-> InitialState(request[r].raw_input),
                             pc |-> "vision"]]
    /\ supabase_client = None
    /\ call_arg = <<>> /\ call_result = <<>>
    /\ raw_input = StrInput("")
    /\ processed_data = NullData
    /\ category = None
    /\ research_notes = None
    /\ metadata = EmptyMetadata
    /\ next_action = None
    /\ n8n_webhook_url = None
    /\ pc = "END"
    /\ executed = <<>>
    /\ outcome = [n \in Nodes |-> "none"]
    /\ calls = NoCalls

\* Mutant: the metadata map is one object that every run's record refers to.
RunWrite_shared_metadata(r, st, next) ==
    wf' = [q \in Runs |->
              IF q = r THEN [state |-> st, pc |-> next]
              ELSE [wf[q] EXCEPT !.state.metadata = st.metadata]]

\* A node of run r returned st and the graph of run r moves to next: the
\* record is the one ainvoke threads through this call's nodes.
RunWrite(r, st, next) ==
    wf' = [wf EXCEPT ![r] = [state |-> st, pc |-> next]]

RunVision(r) ==
    /\ wf[r].pc = "vision"
    /\ LET new == vision_node(wf[r].state, request[r].answers.vision)
       IN  RunWrite(r, new, route_after_vision(new))
    /\ UNCHANGED <<request, supabase_client>>
    /\ UNCHANGED <<run_vars, util_vars>>

RunClassifier(r) ==
    /\ wf[r].pc = "classifier"
    /\ LET new == classifier_node(wf[r].state, request[r].answers.classifier)
       IN  RunWrite(r, new, route_after_classifier(new))
    /\ UNCHANGED <<request, supabase_client>>
    /\ UNCHANGED <<run_vars, util_vars>>

RunResearch(r) ==
    /\ wf[r].pc = "research"
    /\ RunWrite(r, research_node(wf[r].state, request[r].answers.searches,
                                 request[r].answers.synthesis),
                edge_after_research)
    /\ UNCHANGED <<request, supabase_client>>
    /\ UNCHANGED <<run_vars, util_vars>>

\* supabase_service._get_client, first half: the test "self._client is None".
RunSaveGetClient(r) ==
    /\ wf[r].pc = "save"
    /\ RunWrite(r, wf[r].state,
                IF supabase_client = None THEN "save: create_client"
                ELSE "save: insert_item")
    /\ UNCHANGED <<request, supabase_client>>
    /\ UNCHANGED <<run_vars, util_vars>>

\* Second half: create_client and the assignment to self._client.  Two runs
\* that both saw None both get here; the later assignment stays.
RunSaveCreateClient(r) ==
    /\ wf[r].pc = "save: create_client"
    /\ supabase_client' = "client"
    /\ RunWrite(r, wf[r].state, "save: insert_item")
    /\ UNCHANGED request
    /\ UNCHANGED <<run_vars, util_vars>>

\* The rest of save_node, from the table insert on.
RunSaveInsert(r) ==
    /\ wf[r].pc = "save: insert_item"
    /\ RunWrite(r, save_node(wf[r].state, n8n_webhook_url,
                             request[r].answers.item, request[r].answers.hook),
                edge_after_save)
    /\ UNCHANGED <<request, supabase_client>>
    /\ UNCHANGED <<run_vars, util_vars>>

RunFinalize(r) ==
    /\ wf[r].pc = "finalize"
    /\ RunWrite(r, finalize_node(wf[r].state), "END")
    /\ UNCHANGED <<request, supabase_client>>
    /\ UNCHANGED <<run_vars, util_vars>>

RunError(r) ==
    /\ wf[r].pc = "error"
    /\ RunWrite(r, error_node(wf[r].state), "END")
    /\ UNCHANGED <<request, supabase_client>>
    /\ UNCHANGED <<run_vars, util_vars>>

ServiceNext ==
    \E r \in Runs :
        \/ RunVision(r)
        \/ RunClassifier(r)
        \/ RunResearch(r)
        \/ RunSaveGetClient(r)
        \/ RunSaveCreateClient(r)
        \/ RunSaveInsert(r)
        \/ RunFinalize(r)
        \/ RunError(r)

ServiceSpec == ServiceInit /\ [][ServiceNext]_vars

\* The final record of one request when its run is the only one: the nodes
\* applied one after the other along the graph's edges.
RunAlone(req) ==
    LET a == req.answers
        v == vision_node(InitialState(req.raw_input), a.vision)
        c == classifier_node(v, a.classifier)
        r == IF route_after_classifier(c) = "research"
             THEN research_node(c, a.searches, a.synthesis) ELSE c
        s == save_node(r, n8n_webhook_url, a.item, a.hook)
    IN  IF route_after_vision(v) = "error" THEN error_node(v)
        ELSE IF route_after_classifier(c) = "error" THEN error_node(c)
        ELSE finalize_node(s)


(***************************************************************************)
(* The utilities of src/core/utils.py character by character: a string is  *)
(* the sequence of its characters, and each utility is called on its own   *)
(* with every string of a bounded alphabet.                                *)
(***************************************************************************)
MaxCurrencyLen == 5

Digits == {"0", "1", "2", "3", "4", "5", "6", "7", "8", "9"}

DigitValue(c) ==
    CASE c = "0" -> 0 [] c = "1" -> 1 [] c = "2" -> 2 [] c = "3" -> 3
      [] c = "4" -> 4 [] c = "5" -> 5 [] c = "6" -> 6 [] c = "7" -> 7
      [] c = "8" -> 8 [] c = "9" -> 9

\* str.replace(c, ""), str.replace(a, b), c in s, s.rfind(c) (for c in s)
Remove(s, c) == SelectSeq(s, LAMBDA x : x # c)
Replace(s, a, b) == [i \in 1..Len(s) |-> IF s[i] = a THEN b ELSE s[i]]
Contains(s, c) == \E i \in 1..Len(s) : s[i] = c
rfind(s, c) ==
    (CHOOSE i \in 1..Len(s) :
        s[i] = c /\ \A j \in (i + 1)..Len(s) : s[j] # c) - 1

RECURSIVE strip(_)
\* str.strip() of a string whose only whitespace is the space
strip(s) ==
    IF s = <<>> THEN s
    ELSE IF Head(s) = " " THEN strip(Tail(s))
    ELSE IF s[Len(s)] = " " THEN strip(SubSeq(s, 1, Len(s) - 1))
    ELSE s

\* re.sub(r'[$€£¥₹]', '', s)
CurrencySymbols == {"$", "€", "£", "¥", "₹"}
StripSymbols(s) == SelectSeq(s, LAMBDA x : x \notin CurrencySymbols)

\* A float, as the decimal numeral it equals: the integer part's value and
\* the fraction's digits without trailing zeros.
RECURSIVE WholeValue(_)
WholeValue(ds) ==
    IF ds = <<>> THEN 0
    ELSE 10 * WholeValue(SubSeq(ds, 1, Len(ds) - 1)) + DigitValue(ds[Len(ds)])

RECURSIVE DropTrailingZeros(_)
DropTrailingZeros(ds) ==
    IF ds # <<>> /\ ds[Len(ds)] = "0"
    THEN DropTrailingZeros(SubSeq(ds, 1, Len(ds) - 1)) ELSE ds

Float(whole, frac) == [kind |-> "float", whole |-> whole, frac |-> frac]
NoFloat == [kind |-> "null", whole |-> 0, frac |-> <<>>]
NotCalled == [kind |-> "not called", whole |-> 0, frac |-> <<>>]

\* float(text) for a text of digits, points and commas: NoFloat stands for
\* the ValueError, which clean_currency turns into None.
float(text) ==
    IF \/ \E i \in 1..Len(text) : text[i] \notin Digits \cup {"."}
       \/ Cardinality({i \in 1..Len(text) : text[i] = "."}) > 1
       \/ ~\E i \in 1..Len(text) : text[i] \in Digits
    THEN NoFloat
    ELSE LET point == IF Contains(text, ".") THEN rfind(text, ".") + 1
                      ELSE Len(text) + 1
         IN  Float(WholeValue(SubSeq(text, 1, point - 1)),
                   DropTrailingZeros(SubSeq(text, point + 1, Len(text))))

\* Mutant: a lone comma is always the decimal point.
clean_currency_text_comma_is_decimal(value) ==
    LET cleaned == Remove(StripSymbols(strip(value)), " ")
    IN  IF value = <<>> \/ cleaned = <<>> THEN NoFloat
        ELSE IF Contains(cleaned, ",") /\ Contains(cleaned, ".")
        THEN IF rfind(cleaned, ",") > rfind(cleaned, ".")
             THEN float(Replace(Remove(cleaned, "."), ",", "."))
             ELSE float(Remove(cleaned, ","))
        ELSE IF Contains(cleaned, ",")
        THEN float(Replace(cleaned, ",", "."))
        ELSE float(cleaned)

\* utils.py:11-78, on the characters of value.
clean_currency_text(value) ==
    LET cleaned == Remove(StripSymbols(strip(value)), " ")
    IN  IF value = <<>> \/ cleaned = <<>> THEN NoFloat
        ELSE IF Contains(cleaned, ",") /\ Contains(cleaned, ".")
        THEN IF rfind(cleaned, ",") > rfind(cleaned, ".")
             THEN float(Replace(Remove(cleaned, "."), ",", "."))
             ELSE float(Remove(cleaned, ","))
        ELSE IF Contains(cleaned, ",")
        THEN IF Len(cleaned) - rfind(cleaned, ",") <= 3
             THEN float(Replace(cleaned, ",", "."))
             ELSE float(Remove(cleaned, ","))
        ELSE float(cleaned)

\* The amounts the docstring and the prompts give as examples.
CurrencyExamples ==
    {<<"2", "8", ".", "4", "6", "3", ",", "6", "6">>,
     <<"1", ",", "2", "3", "4", ".", "5", "6">>,
     <<"$", "1", "0", "0", ".", "5", "0">>,
     <<"$", " ", "1", "3", ".", "2", "3", "4", ",", "2", "0">>}

CurrencyChars == {"0", "7", ",", ".", "$", " "}
CurrencyInputs == SeqsUpTo(CurrencyChars, MaxCurrencyLen) \cup CurrencyExamples

\* No run of the workflow and no service call is in progress.
NoRun ==
    /\ raw_input = StrInput("")
    /\ processed_data = NullData
    /\ category = None
    /\ research_notes = None
    /\ metadata = EmptyMetadata
    /\ next_action = None
    /\ n8n_webhook_url = None
    /\ pc = "END"
    /\ executed = <<>>
    /\ outcome = [n \in Nodes |-> "none"]
    /\ calls = NoCalls
    /\ wf = <<>> /\ request = <<>> /\ supabase_client = None

CurrencyInit ==
    /\ NoRun
    /\ call_arg \in CurrencyInputs
    /\ call_result = NotCalled

CleanCurrencyCall ==
    /\ call_result = NotCalled
    /\ call_result' = clean_currency_text(call_arg)
    /\ UNCHANGED <<call_arg, run_vars, service_vars>>

CurrencySpec == CurrencyInit /\ [][CleanCurrencyCall]_vars


(***************************************************************************)
(* validate_and_fix_date (utils.py:81-143) on the characters of date_str.  *)
(***************************************************************************)
MaxMonthLen == 2
MaxYearLen == 4

\* utils.py:100: a month/year date has at most seven characters.
ShortDateLen == 7

DigitChar(n) == CHOOSE c \in Digits : DigitValue(c) = n

RECURSIVE ToDigits(_)
\* str(n) for a natural number, and f"{n:02d}"
ToDigits(n) ==
    IF n < 10 THEN <<DigitChar(n)>>
    ELSE ToDigits(n \div 10) \o <<DigitChar(n % 10)>>
Pad2(n) == IF n < 10 THEN <<"0">> \o ToDigits(n) ELSE ToDigits(n)

\* int(token) raises ValueError on an empty token or one with another
\* character than a digit (tokens here carry no sign, blank or underscore).
IsInt(token) == token # <<>> /\ \A i \in 1..Len(token) : token[i] \in Digits

\* calendar.monthrange(year, month)[1]
isleap(year) == year % 4 = 0 /\ (year % 100 # 0 \/ year % 400 = 0)
monthrange(year, month) ==
    IF month = 2 THEN (IF isleap(year) THEN 29 ELSE 28)
    ELSE IF month \in {4, 6, 9, 11} THEN 30 ELSE 31

DateStr(text) == [kind |-> "str", text |-> text]
NoDate == [kind |-> "null", text |-> <<>>]
DateNotCalled == [kind |-> "not called", text |-> <<>>]

\* A string in canonical form: YYYY-MM-DD.
IsCanonicalDate(text) ==
    /\ Len(text) = 10
    /\ \A i \in {1, 2, 3, 4, 6, 7, 9, 10} : text[i] \in Digits
    /\ text[5] = "-" /\ text[8] = "-"

\* dateutil's parser and the strptime that follows it (utils.py:123-140), on
\* the two kinds of text that reach them here: a canonical date comes back
\* as it is, a text without digits makes both raise ValueError.
ParseFullDate(text) ==
    IF IsCanonicalDate(text) THEN DateStr(text) ELSE NoDate

\* utils.py:100-121: the month/year branch; text has exactly one "/".
FixShortDate(text) ==
    LET slash == rfind(text, "/") + 1
        month_str == SubSeq(text, 1, slash - 1)
        year_str == SubSeq(text, slash + 1, Len(text))
    IN  IF ~IsInt(month_str) \/ ~IsInt(year_str) THEN NoDate
        ELSE LET month == WholeValue(month_str)
                 year == IF Len(year_str) = 2 THEN 2000 + WholeValue(year_str)
                         ELSE WholeValue(year_str)
             IN  IF month < 1 \/ month > 12 THEN NoDate
                 ELSE DateStr(ToDigits(year) \o <<"-">> \o Pad2(month) \o <<"-">>
                              \o Pad2(monthrange(year, month)))

validate_and_fix_date_text(date_str) ==
    LET text == strip(date_str)
    IN  IF date_str = <<>> THEN NoDate
        ELSE IF /\ Contains(text, "/") /\ Len(text) <= ShortDateLen
                /\ Cardinality({i \in 1..Len(text) : text[i] = "/"}) = 1
        THEN FixShortDate(text)
        ELSE ParseFullDate(text)

\* Month and year tokens, and the month/year strings made of them.
Tokens(chars, n) == UNION {[1..k -> chars] : k \in 1..n}
MonthTokens == Tokens({"0", "1", "2", "3"}, MaxMonthLen)
YearTokens == Tokens({"0", "1", "2", "4"}, MaxYearLen)
ShortDates ==
    {d \in {m \o <<"/">> \o y : m \in MonthTokens, y \in YearTokens} :
        Len(d) <= ShortDateLen}

\* The examples of the docstring and of the prompts, and other strings.
DateExamples ==
    {<<"0", "1", "/", "2", "7">>,
     <<"0", "3", "/", "2", "0", "2", "5">>,
     <<"2", "0", "2", "4", "-", "1", "2", "-", "3", "1">>,
     <<"n", "o", "t", " ", "a", " ", "d", "a", "t", "e">>,
     <<" ", "0", "1", "/", "2", "7", " ">>,
     <<"a", "/", "2", "7">>,
     <<"1", "/">>,
     <<>>}

DateInputs == ShortDates \cup DateExamples

DateInit ==
    /\ NoRun
    /\ call_arg \in DateInputs
    /\ call_result = DateNotCalled

ValidateAndFixDateCall ==
    /\ call_result = DateNotCalled
    /\ call_result' = validate_and_fix_date_text(call_arg)
    /\ UNCHANGED <<call_arg, run_vars, service_vars>>

DateSpec == DateInit /\ [][ValidateAndFixDateCall]_vars


(***************************************************************************)
(* vision_node called on its own (vision.py:57-240), with completion       *)
(* responses whose reminders carry every kind of due_date and amount.      *)
(* call_arg keeps the reminders as the completion service returned them.   *)
(***************************************************************************)
ExtractionReminders ==
    [label : {"Cuota 1"},
     due_date : {None, CanonicalDate, PartialDate, ShortYearDate, GarbageDate},
     amount : {None} \cup AmountValues]

ExtractionResponses ==
    [kind : {"raise", "badjson"}, value : {NullData}]
    \cup [kind : {"json"},
          value : [kind : {"dict"}, item_name : {"TV"}, expiry_date : {None},
                   issue_date : {None}, brand : {None}, total_amount : {None},
                   reminders : SeqsUpTo(ExtractionReminders, MaxReminders + 1)]]

ExtractionInit ==
    /\ raw_input \in RawInputs
    /\ processed_data = NullData
    /\ category = None
    /\ research_notes = None
    /\ metadata = EmptyMetadata
    /\ next_action = None
    /\ n8n_webhook_url = None
    /\ pc = "vision"
    /\ executed = <<>>
    /\ outcome = [n \in Nodes |-> "none"]
    /\ calls = NoCalls
    /\ wf = <<>> /\ request = <<>> /\ supabase_client = None
    /\ call_arg = <<>> /\ call_result = <<>>

ExtractionStep ==
    /\ pc = "vision"
    /\ \E resp \in ExtractionResponses :
          LET new == vision_node(State, resp)
              called == VisionCallsLlm(raw_input)
          IN  /\ Write(new)
              /\ pc' = route_after_vision(new)
              /\ executed' = Append(executed, "vision")
              /\ outcome' = [outcome EXCEPT !["vision"] =
                                IF VisionError(raw_input, resp) # None
                                THEN "failed" ELSE "ok"]
              /\ calls' = [calls EXCEPT !.llm_vision =
                              IF called THEN @ + 1 ELSE @]
              /\ call_arg' = IF called THEN resp.value.reminders ELSE <<>>
              /\ UNCHANGED <<n8n_webhook_url, service_vars, call_result>>

ExtractionSpec == ExtractionInit /\ [][ExtractionStep]_vars


(***************************************************************************)
(* finalize_node and error_node (graph.py:65-103) called on any record,    *)
(* and again on the record they return.                                    *)
(***************************************************************************)
MaxApplications == 2

TerminalInit ==
    /\ raw_input \in RawInputs
    /\ processed_data \in {NullData, OfKind("emptydict")}
    /\ category \in {None, "food"}
    /\ research_notes = None
    /\ metadata \in CallerMetadata
    /\ next_action \in {None, "research", "finalize", "error"}
    /\ n8n_webhook_url = None
    /\ pc \in {"finalize", "error"}
    /\ executed = <<>>
    /\ outcome = [n \in Nodes |-> "none"]
    /\ calls = NoCalls
    /\ wf = <<>> /\ request = <<>> /\ supabase_client = None
    /\ call_arg = <<>> /\ call_result = <<>>

ApplyFinalize ==
    /\ pc = "finalize"
    /\ Len(executed) < MaxApplications
    /\ Write(finalize_node(State))
    /\ Ran("finalize", "ok")
    /\ UNCHANGED <<pc, calls>>

ApplyError ==
    /\ pc = "error"
    /\ Len(executed) < MaxApplications
    /\ Write(error_node(State))
    /\ Ran("error", "ok")
    /\ UNCHANGED <<pc, calls>>

TerminalSpec == TerminalInit /\ [][ApplyFinalize \/ ApplyError]_vars


(***************************************************************************)
(* save_node called on its own (save.py:114-254), with records that carry  *)
(* one reminder more than a run of the whole graph is given here.          *)
(***************************************************************************)
PersistInit ==
    /\ raw_input = StrInput(SomeText)
    /\ processed_data \in
          [kind : {"dict"}, item_name : {"TV"},
           expiry_date : {None, CanonicalDate},
           issue_date : {None}, brand : {"Acme"}, total_amount : {None},
           reminders : SeqsUpTo(Reminders, MaxReminders + 1)]
    /\ category = "food"
    /\ research_notes = None
    /\ metadata = EmptyMetadata
    /\ next_action \in {"research", "finalize"}
    /\ n8n_webhook_url \in {None, WebhookUrl}
    /\ pc = "save"
    /\ executed = <<>>
    /\ outcome = [n \in Nodes |-> "none"]
    /\ calls = NoCalls
    /\ wf = <<>> /\ request = <<>> /\ supabase_client = None
    /\ call_arg = <<>> /\ call_result = <<>>

PersistStep ==
    /\ pc = "save"
    /\ \E item_out \in InsertItemOutcomes,
          outs \in [1..(MaxReminders + 1) -> InsertReminderOutcomes],
          hook \in WebhookOutcomes :
          LET new == save_node(State, n8n_webhook_url, item_out, hook)
              posts == SaveCallsWebhook(State, n8n_webhook_url, item_out)
          IN  /\ Write(new)
              /\ pc' = edge_after_save
              /\ Ran("save", IF new.metadata.save_error # None
                             THEN "failed" ELSE "ok")
              /\ calls' = [calls EXCEPT
                              !.insert_item = Append(@, item_out),
                              !.insert_reminder =
                                  @ \o SaveSubmits(State, item_out, outs),
                              !.webhook = IF posts THEN @ + 1 ELSE @,
                              !.webhook_failures =
                                  IF posts /\ hook = "raise" THEN @ + 1 ELSE @]

PersistSpec == PersistInit /\ [][PersistStep]_vars


(***************************************************************************)
(* Properties.                                                             *)
(***************************************************************************)
Last(seq) == seq[Len(seq)]
Range(seq) == {seq[i] : i \in 1..Len(seq)}

\* fields is present and non-empty: not None, not {} and not ""/[].
PresentNonEmpty(pd) == pd.kind \notin {"null", "emptydict", "emptyseq"}

\* A field of fields is absent: None or the empty string.
Absent(x) == x = None \/ x = ""

\* C1: after vision_node returns, the graph moves to the classifier iff
\* next_action is not "error" and processed_data is present and non-empty;
\* in every other case it moves to the error node.
C1_RouteAfterVision ==
    [][pc = "vision" =>
          /\ pc' \in {"classifier", "error"}
          /\ (pc' = "classifier") <=>
                (next_action' # "error" /\ PresentNonEmpty(processed_data'))]_vars

\* C1 witness: extraction returned an empty dict without failing, and the
\* graph still went to the error node.
C1_Witness ==
    /\ executed = <<"vision">>
    /\ outcome["vision"] = "ok"
    /\ next_action # "error"
    /\ processed_data.kind = "emptydict"
    /\ pc = "error"

\* The research condition as section 4.4 words it.
C2_ResearchNeeded ==
    /\ category \in {"warranty", "food", "reading"}
    /\ ~Absent(processed_data.item_name)
    /\ \/ Absent(processed_data.brand)
       \/ (category = "warranty" /\ Absent(processed_data.expiry_date))

C3_FailureIsFatal ==
    (outcome["vision"] = "failed" \/ outcome["classifier"] = "failed") =>
        /\ pc \in {"error", "END"}
        /\ Range(executed) \cap {"research", "save", "finalize"} = {}
        /\ pc = "END" => Last(executed) = "error"
        /\ calls.insert_item = <<>>
        /\ calls.insert_reminder = <<>>
        /\ calls.webhook = 0

\* C3 witness: a run with a webhook configured whose classification failed
\* after a successful extraction has ended.
C3_Witness ==
    /\ pc = "END"
    /\ outcome["vision"] = "ok"
    /\ outcome["classifier"] = "failed"
    /\ n8n_webhook_url = WebhookUrl

\* C4: the node after research is always save, whatever the searches and the
\* synthesis did; research never sets next_action to "error", and the error
\* node never runs in a run that did research.
C4_ResearchNeverAborts ==
    [][/\ pc = "research" => (pc' = "save" /\ next_action' # "error")
       /\ "research" \in Range(executed) => pc' # "error"]_vars

\* C4 witness: research ran with a failing search or synthesis call and the
\* graph stands at save.
C4_Witness ==
    /\ pc = "save"
    /\ outcome["research"] = "failed"

\* C5: the node after save is always finalize and the run then ends with
\* next_action = "complete", also when insert_item raised; in that case
\* metadata carries save_error, and save never sets next_action to "error".
C5_SaveNeverAborts ==
    [][/\ pc = "save" =>
            /\ pc' = "finalize"
            /\ next_action' # "error"
            /\ "raise" \in Range(calls'.insert_item) => metadata'.save_error # None
       /\ (pc' = "END" /\ "save" \in Range(executed)) =>
            (Last(executed') = "finalize" /\ next_action' = "complete")]_vars

\* C5 witness: a run whose item write raised has ended, complete.
C5_Witness ==
    /\ pc = "END"
    /\ calls.insert_item = <<"raise">>
    /\ metadata.save_error # None
    /\ next_action = "complete"

\* C6: every run eventually stands at END, having last executed finalize or
\* error, and stays there; no node is executed twice.
C6_Terminates ==
    /\ <>[](pc = "END" /\ executed # <<>> /\ Last(executed) \in {"finalize", "error"})
    /\ [](\A i, j \in 1..Len(executed) : i # j => executed[i] # executed[j])

\* C6 witness: the longest run, through research, has ended.
C6_Witness ==
    /\ pc = "END"
    /\ executed = <<"vision", "classifier", "research", "save", "finalize">>

\* C7: in the final record, metadata.nodes_executed lists exactly the nodes
\* that executed, in execution order (for a caller that supplied no trace).
C7_TraceIsExecution ==
    pc = "END" => metadata.nodes_executed = executed

\* C8 as stated: a successful extraction leaves processed_data non-null and
\* next_action = "continue".
C8_SuccessSetsContinue ==
    (executed = <<"vision">> /\ outcome["vision"] = "ok") =>
        (processed_data.kind # "null" /\ next_action = "continue")

\* C8 amended: a successful extraction leaves processed_data non-null and
\* does not write next_action, which is still None as main.py set it.
C8_SuccessSetsFields ==
    [][(pc = "vision" /\ outcome'["vision"] = "ok") =>
          /\ processed_data'.kind # "null"
          /\ next_action' = next_action
          /\ next_action' = None]_vars

\* C8 witness: extraction succeeded with a dict and the graph moved on.
C8_Witness ==
    /\ executed = <<"vision">>
    /\ outcome["vision"] = "ok"
    /\ processed_data.kind = "dict"
    /\ pc = "classifier"

\* C9: a failed extraction returns next_action = "error", an error detail
\* with error_node = "vision", and processed_data as it was on entry (None).
C9_FailureLeavesFieldsUnset ==
    [][(pc = "vision" /\ outcome'["vision"] = "failed") =>
          /\ next_action' = "error"
          /\ metadata'.error \notin {None, "caller supplied"}
          /\ metadata'.error_node = "vision"
          /\ processed_data' = processed_data
          /\ processed_data' = NullData]_vars

\* C9 witness: the completion response of a text input did not parse.
C9_Witness ==
    /\ executed = <<"vision">>
    /\ outcome["vision"] = "failed"
    /\ raw_input = StrInput(SomeText)
    /\ calls.llm_vision = 1

\* C10: category is None or one of the four; and a parsed classification
\* whose category is not one of the four (missing, null or non-text
\* included) gives a successful classification with category = "food".
C10_UnrecognizedBecomesFood ==
    /\ category \in VALID_CATEGORIES \cup {None}
    /\ (/\ calls.llm_classifier # <<>>
        /\ calls.llm_classifier[1].kind = "json"
        /\ lower(calls.llm_classifier[1].category) \notin VALID_CATEGORIES) =>
            (outcome["classifier"] = "ok" /\ category = "food")

\* A date is absent or nothing can repair it.
Unrepairable(d) == Absent(d) \/ validate_and_fix_date(d) = None

\* A candidate reminder of pd with no usable date of its own nor of the item.
Hopeless(reminder, pd) ==
    Unrepairable(reminder.due_date) /\ Unrepairable(pd.expiry_date)

\* C11: every reminder submitted to storage, and every row written, has a
\* non-null canonical due_date; a candidate whose own due_date and whose
\* item's expiry_date are both absent or unrepairable is dropped, so
\* insert_reminder is called at most once per other candidate (or once for
\* the synthesized fallback) and never when every candidate is hopeless.
C11_RemindersHaveDueDate ==
    [][pc = "save" =>
          LET pd == processed_data
              subs == calls'.insert_reminder
              usable == {i \in 1..Len(pd.reminders) : ~Hopeless(pd.reminders[i], pd)}
          IN  /\ \A i \in 1..Len(subs) :
                    /\ subs[i].data.due_date \in IsoTimestamps
                    /\ subs[i].result # "rejected"
                    /\ StoredRow(subs[i].data).due_date \in CanonicalDates
              /\ pd.reminders # <<>> => Len(subs) <= Cardinality(usable)
              /\ (pd.reminders # <<>> /\ metadata'.item_id = ItemId) =>
                    Len(subs) = Cardinality(usable)
              /\ pd.reminders = <<>> => Len(subs) <= 1]_vars

\* C11 witness: the item was written, its only reminder carries a date nothing
\* can repair, the item's expiry_date is no better, and no reminder was
\* submitted.
C11_Witness ==
    /\ pc = "finalize"
    /\ metadata.item_id = ItemId
    /\ Len(processed_data.reminders) = 1
    /\ processed_data.reminders[1].due_date = GarbageDate
    /\ processed_data.expiry_date = GarbageDate
    /\ calls.insert_reminder = <<>>

\* C12 as stated: with no reminders, an expiry_date that is present and an
\* item write that returned its row, save submits exactly one reminder, the
\* fallback, dated with the repaired expiry_date.
C12_FallbackWheneverExpiryPresent ==
    [][(/\ pc = "save"
        /\ processed_data.reminders = <<>>
        /\ ~Absent(processed_data.expiry_date)
        /\ calls'.insert_item = <<"row">>) =>
          /\ Len(calls'.insert_reminder) = 1
          /\ calls'.insert_reminder[1].data.label = FallbackLabel]_vars

\* C12 amended: with no reminders, an expiry_date the date repairer accepts
\* and an item write that returned an identifier, save submits exactly one
\* reminder: the fallback, tagged with the item's identifier and dated with
\* the repaired expiry_date; with no reminders and an unrepairable
\* expiry_date or no identifier it submits none; and with reminders present
\* no submitted reminder is a fallback.
C12_FallbackReminder ==
    [][pc = "save" =>
          LET pd == processed_data
              subs == calls'.insert_reminder
              repaired == validate_and_fix_date(pd.expiry_date)
          IN  /\ (/\ pd.reminders = <<>>
                  /\ ~Unrepairable(pd.expiry_date)
                  /\ calls'.insert_item = <<"row">>) =>
                    /\ Len(subs) = 1
                    /\ subs[1].data = [item_id |-> ItemId,
                                       label |-> FallbackLabel,
                                       due_date |-> IsoOf(repaired),
                                       amount |-> pd.total_amount]
                    /\ StoredRow(subs[1].data).due_date = repaired
                    /\ subs[1].result \in {"stored", "failed"}
              /\ (/\ pd.reminders = <<>>
                  /\ \/ Unrepairable(pd.expiry_date)
                     \/ calls'.insert_item # <<"row">>) => subs = <<>>
              /\ pd.reminders # <<>> =>
                    \A i \in 1..Len(subs) : subs[i].data.label # FallbackLabel]_vars

\* C12 witness: an item without reminders and with expiry_date 2025-06-01 was
\* written, and the one reminder stored is the fallback.
C12_Witness ==
    /\ pc = "finalize"
    /\ processed_data.reminders = <<>>
    /\ processed_data.expiry_date = CanonicalDate
    /\ Len(calls.insert_reminder) = 1
    /\ calls.insert_reminder[1].data.label = FallbackLabel
    /\ calls.insert_reminder[1].result = "stored"

\* C13 as stated: a brand, and an expiry_date, that is not null before
\* research has the same value after it.
C13_NonNullKept ==
    [][pc = "research" =>
          /\ processed_data.brand # None =>
                processed_data'.brand = processed_data.brand
          /\ processed_data.expiry_date # None =>
                processed_data'.expiry_date = processed_data.expiry_date]_vars

\* C13 amended: a brand, and an expiry_date, that is neither null nor the
\* empty string before research has the same value after it; research
\* changes no other field of processed_data, and a field it changed was
\* null or empty before.
C13_PresentKept ==
    [][pc = "research" =>
          /\ Truthy(processed_data.brand) =>
                processed_data'.brand = processed_data.brand
          /\ Truthy(processed_data.expiry_date) =>
                processed_data'.expiry_date = processed_data.expiry_date
          /\ processed_data'.brand # processed_data.brand =>
                (Absent(processed_data.brand) /\ Truthy(processed_data'.brand))
          /\ processed_data'.expiry_date # processed_data.expiry_date =>
                (Absent(processed_data.expiry_date)
                 /\ Truthy(processed_data'.expiry_date))
          /\ processed_data' = [processed_data EXCEPT
                                  !.brand = processed_data'.brand,
                                  !.expiry_date = processed_data'.expiry_date]]_vars

\* C13 witness: research of a warranty item filled the missing expiry_date
\* from the synthesis and the brand the item came with is still there.
C13_Witness ==
    /\ pc = "save"
    /\ executed = <<"vision", "classifier", "research">>
    /\ calls.llm_synthesis = 1
    /\ processed_data.brand = "Acme"
    /\ processed_data.expiry_date = "2030-01-01"

\* C14: the queries built are the manufacturer query iff brand is missing,
\* then the standard-warranty query iff category is warranty and expiry_date
\* is missing: zero, one or two queries; the searches research issues are
\* those queries or none.  With zero queries research makes no search and no
\* completion call, leaves processed_data and research_notes unchanged and
\* still records its execution in metadata.
C14_QueriesAndNoOp ==
    [][pc = "research" =>
          LET q == _build_search_queries(State)
              name == processed_data.item_name
              m == Absent(processed_data.brand)
              w == category = "warranty" /\ Absent(processed_data.expiry_date)
          IN  /\ (ManufacturerQuery(name) \in Range(q)) <=> m
              /\ (WarrantyQuery(name) \in Range(q)) <=> w
              /\ Len(q) = (IF m THEN 1 ELSE 0) + (IF w THEN 1 ELSE 0)
              /\ (m /\ w) => q = <<ManufacturerQuery(name), WarrantyQuery(name)>>
              /\ calls'.search \in {<<>>, q}
              /\ q = <<>> =>
                    /\ calls' = calls
                    /\ processed_data' = processed_data
                    /\ research_notes' = research_notes
                    /\ metadata'.research_node_executed
                    /\ metadata' = [metadata EXCEPT
                                      !.research_node_executed = TRUE,
                                      !.nodes_executed = Append(@, "research")]]_vars

\* C14 witness: research_node ran on a food item that has its brand, built no
\* query, called nothing and recorded its execution.
C14_Witness ==
    /\ executed = <<"research">>
    /\ category = "food"
    /\ processed_data.brand = "Acme"
    /\ processed_data.item_name = "TV"
    /\ calls = NoCalls
    /\ research_notes = None
    /\ metadata.nodes_executed = <<"research">>

\* C15: whenever the error node executes, metadata.error and
\* metadata.error_node have already been set by the node that detected the
\* failure.
C15_ErrorHasDetail ==
    (pc = "error" \/ "error" \in Range(executed)) =>
        /\ metadata.error \notin {None, "caller supplied"}
        /\ metadata.error_node \in {"vision", "classifier"}

\* C16: in the final record next_action is "complete" iff the run ended in
\* finalize and "error" iff it ended in the error node, and it is never None
\* nor any other value.
C16_FinalAction ==
    pc = "END" =>
        /\ next_action \in {"complete", "error"}
        /\ (next_action = "complete") <=> (Last(executed) = "finalize")
        /\ (next_action = "error") <=> (Last(executed) = "error")
        /\ (next_action = "complete") <=> metadata.finalize_node_executed
        /\ (next_action = "error") <=> metadata.error_node_executed

\* C16 witness: a run whose extraction did not fail but gave nothing ended in
\* the error node, which wrote next_action = "error".
C16_Witness ==
    /\ pc = "END"
    /\ executed = <<"vision", "error">>
    /\ outcome["vision"] = "ok"
    /\ next_action = "error"

\* C17: save posts to the webhook only if a URL is configured and
\* next_action on entry is set and is not "complete", and at most once in a
\* run; when the post fails, save returns the record it returns when the post
\* succeeds (no field changed, no save_error, the identifier the item write
\* returned recorded as item_id) and the run goes on to finalize and ends
\* there.
C17_WebhookBestEffort ==
    [][/\ calls'.webhook <= 1
       /\ calls'.webhook # calls.webhook =>
             /\ pc = "save"
             /\ n8n_webhook_url = WebhookUrl
             /\ next_action \notin {None, "", "complete"}
       /\ calls'.webhook_failures # calls.webhook_failures =>
             /\ pc = "save" /\ pc' = "finalize"
             /\ <<raw_input', processed_data', category', research_notes',
                  next_action'>> =
                <<raw_input, processed_data, category, research_notes,
                  next_action>>
             /\ metadata' = [metadata EXCEPT
                               !.save_node_executed = TRUE,
                               !.item_id = IF Last(calls'.insert_item) = "row"
                                           THEN ItemId ELSE None,
                               !.nodes_executed = Append(@, "save")]
       /\ (calls.webhook_failures > 0 /\ pc' = "END") =>
             /\ Last(executed') = "finalize"
             /\ next_action' = "complete"
             /\ metadata'.save_error = None]_vars

\* C17 witness: a run whose one webhook post failed has ended in finalize
\* with the item's identifier in metadata.
C17_Witness ==
    /\ pc = "END"
    /\ calls.webhook = 1
    /\ calls.webhook_failures = 1
    /\ Last(executed) = "finalize"
    /\ metadata.item_id = ItemId
    /\ metadata.save_error = None

\* C18 as stated: next_action is always None or one of continue, research,
\* complete, error.
C18_ActionInSpecEnum ==
    next_action \in {None, "continue", "research", "complete", "error"}

\* C18 amended: next_action is always None or one of research, finalize,
\* complete, error; a node that runs leaves it as it was or writes one of
\* these four.
C18_ActionInCodeEnum ==
    [][/\ next_action \in {None, "research", "finalize", "complete", "error"}
       /\ next_action' \in {next_action, "research", "finalize", "complete", "error"}]_vars

\* C18 witness: the classifier found a food item with its brand, wrote
\* next_action = "finalize" and the graph stands at save.
C18_Witness ==
    /\ pc = "save"
    /\ executed = <<"vision", "classifier">>
    /\ category = "food"
    /\ next_action = "finalize"

\* The case of C19, as it shows after classification: a text input, an
\* extraction and a classification that succeeded, category warranty, an
\* item_name and a brand, no expiry_date.
C19_Case ==
    /\ InputPath(raw_input) = "text"
    /\ outcome["vision"] = "ok" /\ outcome["classifier"] = "ok"
    /\ category = "warranty"
    /\ Truthy(processed_data.item_name)
    /\ Truthy(processed_data.brand)
    /\ Absent(processed_data.expiry_date)

\* A run of that case from research on: research ran after vision and
\* classifier and searched exactly the standard-warranty query.
C19_Run ==
    /\ InputPath(raw_input) = "text"
    /\ category = "warranty"
    /\ Len(executed) >= 3
    /\ SubSeq(executed, 1, 3) = <<"vision", "classifier", "research">>
    /\ calls.search = <<WarrantyQuery(processed_data.item_name)>>

\* Some reminder of the record has a date of its own that can be repaired.
HasDatedReminder(pd) ==
    \E i \in 1..Len(pd.reminders) : ~Unrepairable(pd.reminders[i].due_date)

C19_Order == <<"vision", "classifier", "research", "save", "finalize">>

\* C19 as stated, at the end of a run of the case: the five nodes ran in
\* order, research searched exactly the standard-warranty query, the item and
\* at least one reminder were written, and next_action is "complete".
C19_WritesItemAndReminder ==
    (pc = "END" /\ C19_Run) =>
        /\ executed = C19_Order
        /\ next_action = "complete"
        /\ calls.insert_item \in {<<"row">>, <<"row without id">>}
        /\ \E i \in 1..Len(calls.insert_reminder) :
              calls.insert_reminder[i].result = "stored"

\* C19 amended: in the case of C19 the graph goes from the classifier to
\* research, research searches exactly the standard-warranty query and hands
\* over to save, and the run ends having executed the five nodes in order
\* with next_action = "complete".  Save submits the item once; if the write
\* returns an identifier it submits at least one reminder when the record
\* then has a repairable expiry_date or a reminder with a repairable date of
\* its own, and none otherwise; if the write fails it submits none.
C19_WarrantyRun ==
    /\ [][/\ (pc = "classifier" /\ C19_Case') => pc' = "research"
          /\ (pc = "research" /\ C19_Case) =>
                /\ calls'.search = <<WarrantyQuery(processed_data.item_name)>>
                /\ pc' = "save"
                /\ C19_Run']_vars
    /\ [](C19_Run =>
            /\ pc \in {"save", "finalize", "END"}
            /\ executed = SubSeq(C19_Order, 1, Len(executed))
            /\ pc = "END" => (executed = C19_Order /\ next_action = "complete")
            /\ pc \in {"finalize", "END"} =>
                  /\ Len(calls.insert_item) = 1
                  /\ (/\ calls.insert_item = <<"row">>
                      /\ \/ ~Unrepairable(processed_data.expiry_date)
                         \/ HasDatedReminder(processed_data)) =>
                        Len(calls.insert_reminder) >= 1
                  /\ (/\ Unrepairable(processed_data.expiry_date)
                      /\ ~HasDatedReminder(processed_data)) =>
                        calls.insert_reminder = <<>>
                  /\ calls.insert_item # <<"row">> =>
                        calls.insert_reminder = <<>>)
    /\ ((pc = "research" /\ C19_Case) ~>
            (pc = "END" /\ executed = C19_Order /\ next_action = "complete"))

\* C19 witness: a run of the case has ended; the synthesis filled
\* expiry_date, the item was written and the fallback reminder was stored.
C19_Witness ==
    /\ pc = "END"
    /\ C19_Run
    /\ executed = C19_Order
    /\ processed_data.brand = "Acme"
    /\ processed_data.expiry_date = "2030-01-01"
    /\ calls.insert_item = <<"row">>
    /\ Len(calls.insert_reminder) = 1
    /\ calls.insert_reminder[1].result = "stored"
    /\ next_action = "complete"

\* C20: at the end of a run, every failure that was caught has left an entry
\* in metadata with a message and the node that produced it: extraction and
\* classification failures, search and synthesis failures, a failed item
\* write, a failed reminder insert and a failed webhook post.
C20_FailuresRecorded ==
    pc = "END" =>
        /\ (outcome["vision"] = "failed" \/ outcome["classifier"] = "failed") =>
              /\ metadata.error \notin {None, "caller supplied"}
              /\ metadata.error_node \in {"vision", "classifier"}
        /\ outcome["research"] = "failed" =>
              /\ metadata.error \notin {None, "caller supplied"}
              /\ metadata.error_node = "research"
        /\ "raise" \in Range(calls.insert_item) => metadata.save_error # None
        /\ (\/ \E i \in 1..Len(calls.insert_reminder) :
                  calls.insert_reminder[i].result # "stored"
            \/ calls.webhook_failures > 0) =>
              (metadata.save_error # None \/ metadata.error_node = "save")

\* C21: no collaborator call is retried.  In a run the completion service is
\* called at most once by vision, once by the classifier and once by the
\* synthesis; research searches each query it built exactly once, at most
\* two; insert_item is called at most once, insert_reminder at most once per
\* candidate reminder and the webhook at most once, failed or not.
C21_NoRetry ==
    [][/\ calls'.llm_vision <= 1
       /\ Len(calls'.llm_classifier) <= 1
       /\ calls'.llm_synthesis <= 1
       /\ Len(calls'.insert_item) <= 1
       /\ calls'.webhook <= 1 /\ calls'.webhook_failures <= calls'.webhook
       /\ pc = "research" =>
             /\ calls'.search = _build_search_queries(State)
             /\ Len(calls'.search) \in 1..2
             /\ Len(calls'.search) = 2 => calls'.search[1] # calls'.search[2]
       /\ pc # "research" => calls'.search = calls.search
       /\ pc = "save" =>
             Len(calls'.insert_reminder) <=
                 (IF processed_data.reminders = <<>> THEN 1
                  ELSE Len(processed_data.reminders))
       /\ pc # "save" => calls'.insert_reminder = calls.insert_reminder]_vars

\* C21 witness: a run in which a search, the reminder insert and the webhook
\* post all failed has ended, each of them called once.
C21_Witness ==
    /\ pc = "END"
    /\ outcome["research"] = "failed"
    /\ Len(calls.search) = 1
    /\ Len(calls.insert_reminder) = 1
    /\ calls.insert_reminder[1].result = "failed"
    /\ calls.webhook = 1 /\ calls.webhook_failures = 1

\* C22: with several runs in progress at once, the final record of each run
\* is the record the same request gives when it runs alone with the same
\* collaborator answers; and a step of one run changes no other run's record.
C22_RunsAreIsolated ==
    /\ [](\A r \in Runs : wf[r].pc = "END" => wf[r].state = RunAlone(request[r]))
    /\ [][\A r \in Runs : wf'[r] # wf[r] =>
              \A q \in Runs \ {r} : wf'[q] = wf[q]]_vars

\* C22 witness: two runs whose steps interleaved have both ended, one with a
\* researched and stored warranty item, the other in the error node, and both
\* went through the client's creation.
C22_Witness ==
    /\ \A r \in Runs : wf[r].pc = "END"
    /\ wf[1].state.processed_data.brand = "Sony"
    /\ wf[1].state.metadata.item_id = ItemId
    /\ wf[1].state.next_action = "complete"
    /\ wf[2].state.next_action = "error"
    /\ wf[2].state.metadata.nodes_executed = <<"error">>
    /\ supabase_client = "client"

\* The rule of C23 in its own words, on the text left after symbols and
\* spaces are stripped: which character is the decimal point and which is
\* dropped.
C23_Rule(text) ==
    LET commas == {i \in 1..Len(text) : text[i] = ","}
        points == {i \in 1..Len(text) : text[i] = "."}
        Later(A, B) == \E a \in A : \A b \in B : a > b
        CommaIsDecimal ==
            IF points # {} THEN Later(commas, points)
            ELSE \E i \in commas : \A j \in commas : j <= i /\ i >= Len(text) - 2
        kept == {i \in 1..Len(text) :
                    IF commas = {} THEN TRUE
                    ELSE IF CommaIsDecimal THEN text[i] # "." ELSE text[i] # ","}
        Nth(k) == CHOOSE i \in kept : Cardinality({j \in kept : j < i}) = k - 1
    IN  [k \in 1..Cardinality(kept) |->
            IF text[Nth(k)] = "," THEN "." ELSE text[Nth(k)]]

\* A decimal numeral: digits with at most one point and at least one digit.
C23_IsNumber(text) ==
    /\ \A i \in 1..Len(text) : text[i] \in Digits \cup {"."}
    /\ \A i, j \in 1..Len(text) : (text[i] = "." /\ text[j] = ".") => i = j
    /\ \E i \in 1..Len(text) : text[i] \in Digits

\* C23: for every string over digits, ',', '.', a currency symbol and the
\* space, clean_currency returns the number the rule gives (symbols and
\* spaces stripped; with both separators the later one is the decimal point
\* and the other is removed; a lone ',' is the decimal point within the last
\* three characters and removed otherwise; a lone '.' stays), or null when
\* that text is empty or no number.  28.463,66 gives 28463.66, 1,234.56
\* gives 1234.56 and $100.50 gives 100.5.
C23_CleanCurrency ==
    call_result # NotCalled =>
        LET text == C23_Rule(SelectSeq(call_arg,
                                 LAMBDA c : c \notin CurrencySymbols \cup {" "}))
        IN  /\ C23_IsNumber(text) =>
                  /\ call_result.kind = "float"
                  /\ call_result = float(text)
            /\ ~C23_IsNumber(text) => call_result = NoFloat
            /\ call_arg = <<"2", "8", ".", "4", "6", "3", ",", "6", "6">> =>
                  call_result = Float(28463, <<"6", "6">>)
            /\ call_arg = <<"1", ",", "2", "3", "4", ".", "5", "6">> =>
                  call_result = Float(1234, <<"5", "6">>)
            /\ call_arg = <<"$", "1", "0", "0", ".", "5", "0">> =>
                  call_result = Float(100, <<"5">>)
            /\ call_arg = <<"7", ",", "7", "7", "7">> =>
                  call_result = Float(7777, <<>>)
            /\ call_arg = <<"7", "7", ",", "7", "7">> =>
                  call_result = Float(77, <<"7", "7">>)

\* C23 witness: clean_currency was called on 28.463,66 and returned 28463.66.
C23_Witness ==
    /\ call_arg = <<"2", "8", ".", "4", "6", "3", ",", "6", "6">>
    /\ call_result = Float(28463, <<"6", "6">>)

\* call_arg is month/year: two tokens of digits around one "/".
IsMonthYear(text) ==
    /\ Cardinality({i \in 1..Len(text) : text[i] = "/"}) = 1
    /\ \A i \in 1..Len(text) : text[i] \in Digits \cup {"/"}
    /\ text[1] # "/" /\ text[Len(text)] # "/"

MonthOf(text) ==
    WholeValue(SubSeq(text, 1, (CHOOSE i \in 1..Len(text) : text[i] = "/") - 1))
YearTokenOf(text) ==
    SubSeq(text, (CHOOSE i \in 1..Len(text) : text[i] = "/") + 1, Len(text))

\* The last day of a month, leap years included.
LastDayOf(year, month) ==
    CASE month \in {1, 3, 5, 7, 8, 10, 12} -> 31
      [] month \in {4, 6, 9, 11} -> 30
      [] OTHER -> IF (year % 4 = 0 /\ year % 100 # 0) \/ year % 400 = 0
                  THEN 29 ELSE 28

\* C24: for every month/year input of at most seven characters whose year
\* has two or four digits, validate_and_fix_date returns null when the
\* month is outside 1..12, and otherwise the last day of that month of year
\* 2000 + value (two digits) or the year itself (four digits), as a
\* canonical YYYY-MM-DD string; 01/27 gives 2027-01-31 and 03/2025 gives
\* 2025-03-31.
C24_MonthYearRepaired ==
    (/\ call_result # DateNotCalled
     /\ IsMonthYear(call_arg) /\ Len(call_arg) <= ShortDateLen
     /\ Len(YearTokenOf(call_arg)) \in {2, 4}) =>
        LET month == MonthOf(call_arg)
            token == YearTokenOf(call_arg)
            year == IF Len(token) = 2 THEN 2000 + WholeValue(token)
                    ELSE WholeValue(token)
        IN  /\ month \notin 1..12 => call_result = NoDate
            /\ month \in 1..12 =>
                  /\ call_result.kind = "str"
                  /\ IsCanonicalDate(call_result.text)
                  /\ WholeValue(SubSeq(call_result.text, 1, 4)) = year
                  /\ WholeValue(SubSeq(call_result.text, 6, 7)) = month
                  /\ WholeValue(SubSeq(call_result.text, 9, 10)) =
                        LastDayOf(year, month)

\* C25: validate_and_fix_date never raises, and returns null or a string in
\* canonical YYYY-MM-DD form, also for a month/year input whose year has
\* one or three digits.
C25_NullOrCanonical ==
    call_result # DateNotCalled =>
        \/ call_result = NoDate
        \/ (call_result.kind = "str" /\ IsCanonicalDate(call_result.text))

\* C26: the routing signal written by classification and the transition
\* taken by the graph agree: right after a successful classification the
\* run is about to enter research if and only if next_action is "research".
C26_SignalAgreesWithRoute ==
    (/\ executed # <<>>
     /\ executed[Len(executed)] = "classifier"
     /\ outcome["classifier"] = "ok") =>
        (pc = "research" <=> next_action = "research")

\* C27: when a search or the synthesis call fails during research, the
\* failure is written to metadata as an error of the research node, and the
\* processed_data, category and research_notes handed to save are those the
\* state had when research began.
C27_ResearchFailureRecorded ==
    [][(pc = "research" /\ outcome'["research"] = "failed") =>
          /\ metadata'.error \notin {None, "caller supplied"}
          /\ metadata'.error_node = "research"
          /\ processed_data' = processed_data
          /\ category' = category
          /\ research_notes' = research_notes]_vars

\* C28: when research searched at least one query and every search gave
\* empty text, the completion service is not called, processed_data and
\* category are unchanged, research_notes is the note of an empty search,
\* the node is recorded as executed, and save is next.
C28_EmptySearch ==
    [][(/\ pc = "research"
        /\ calls'.search # calls.search
        /\ \A i \in 1..Len(calls'.search_results) :
              calls'.search_results[i] = "") =>
          /\ calls'.llm_synthesis = calls.llm_synthesis
          /\ processed_data' = processed_data
          /\ category' = category
          /\ research_notes' = NoResultsNote
          /\ metadata'.research_node_executed
          /\ Last(metadata'.nodes_executed) = "research"
          /\ pc' = "save"]_vars

\* C28 witness: research searched two queries, both searches came back
\* empty (one of them because the tool raised), and save is next.
C28_Witness ==
    /\ pc = "save"
    /\ Len(calls.search) = 2
    /\ calls.search_results = <<"", "">>
    /\ outcome["research"] = "failed"
    /\ research_notes = NoResultsNote
    /\ calls.llm_synthesis = 0

\* raw_input carries a usable variant: a valid image URL, an embedded
\* payload, or text (a str that is not a URL is text).
UsableInput(raw) ==
    IF raw.type = "str" THEN raw.str # ""
    ELSE IF raw.type = "dict"
    THEN \/ raw.image_url = ValidUrl
         \/ raw.image_base64 \notin {None, ""}
         \/ raw.text \notin {None, ""}
    ELSE FALSE

\* C29: extraction takes the image URL when a valid one is given, else the
\* embedded payload when one is given, else the text when text is given,
\* and fails with an input error only when none of the three is usable: a
\* raw_input with an unusable image_url and a usable text is extracted
\* through the text path.
C29_OnePathOrInputError ==
    executed # <<>> =>
        /\ UsableInput(raw_input) =>
              /\ calls.llm_vision = 1
              /\ ~(outcome["vision"] = "failed" /\ metadata.error \in
                     {"no valid input provided: need image_url, image_base64, or text",
                      "invalid image input: neither url nor base64 provided"})
        /\ ~UsableInput(raw_input) =>
              /\ calls.llm_vision = 0
              /\ outcome["vision"] = "failed"
              /\ metadata.error_node = "vision"

\* C30: after a successful extraction every reminder's amount is a number
\* or null, whichever path was taken; on the text path every reminder's
\* due_date is a canonical date or null; on the image path every due_date
\* is the one the completion service returned.
C30_RemindersNormalized ==
    (executed # <<>> /\ outcome["vision"] = "ok") =>
        /\ Len(processed_data.reminders) = Len(call_arg)
        /\ \A i \in 1..Len(processed_data.reminders) :
              LET r == processed_data.reminders[i]
              IN  /\ r.amount \in {None} \cup ParsedAmounts
                  /\ InputPath(raw_input) = "text" =>
                        r.due_date \in {None} \cup CanonicalDates
                  /\ InputPath(raw_input) = "image" =>
                        r.due_date = call_arg[i].due_date

\* The repaired form of a date, None when it is absent or beyond repair.
Repaired(d) == IF Absent(d) THEN None ELSE validate_and_fix_date(d)

\* The date a candidate reminder of pd is to be written with.
DueDateFor(reminder, pd) ==
    IF Repaired(reminder.due_date) # None THEN Repaired(reminder.due_date)
    ELSE Repaired(pd.expiry_date)

\* C31: in save, a candidate reminder whose own due_date is absent or cannot
\* be repaired is submitted with the item's repaired expiry_date when that
\* is present and repairable; a reminder whose own due_date can be repaired
\* is submitted with its own repaired date, not with the item's.
C31_DueDateFallback ==
    [][(/\ pc = "save"
        /\ processed_data.reminders # <<>>
        /\ calls'.insert_item = <<"row">>) =>
          LET pd == processed_data
              subs == calls'.insert_reminder
              kept == SelectSeq(pd.reminders,
                                LAMBDA r : DueDateFor(r, pd) # None)
          IN  /\ Len(subs) = Len(kept)
              /\ \A i \in 1..Len(subs) :
                    /\ subs[i].data.label = kept[i].label
                    /\ subs[i].data.due_date = IsoOf(DueDateFor(kept[i], pd))
                    /\ StoredRow(subs[i].data).due_date = DueDateFor(kept[i], pd)]_vars

\* C31 witness: a reminder with a date nothing can repair was submitted with
\* the item's expiry_date.
C31_Witness ==
    /\ pc = "finalize"
    /\ Len(processed_data.reminders) = 1
    /\ processed_data.reminders[1].due_date = GarbageDate
    /\ processed_data.expiry_date = CanonicalDate
    /\ Len(calls.insert_reminder) = 1
    /\ calls.insert_reminder[1].data.due_date = IsoOf(CanonicalDate)

\* C32: finalize_node and error_node are idempotent: applied to the record
\* they returned, they return that record again, nodes_executed included.
C32_Idempotent ==
    [][executed # <<>> => State' = State]_vars

\* The position of a stage in the order of the graph.
StageRank(node) ==
    CASE node = "vision" -> 1
      [] node = "classifier" -> 2
      [] node = "research" -> 3
      [] node = "save" -> 4
      [] node = "finalize" -> 5
      [] node = "error" -> 6

\* C33: in a run the stages execute one at a time, each at most once, in
\* the order vision, classifier, research, save, finalize; the classifier
\* runs only after vision succeeded and save only after the classifier
\* succeeded.
C33_StageOrder ==
    /\ \A i, j \in 1..Len(executed) :
          i < j => StageRank(executed[i]) < StageRank(executed[j])
    /\ \A i \in 1..Len(executed) :
          /\ executed[i] = "classifier" =>
                (i = 2 /\ executed[1] = "vision" /\ outcome["vision"] = "ok")
          /\ executed[i] = "save" =>
                (\E j \in 1..(i - 1) : executed[j] = "classifier")
                /\ outcome["classifier"] = "ok"

\* C33 witness: a run went through all five stages.
C33_Witness ==
    /\ pc = "END"
    /\ executed = <<"vision", "classifier", "research", "save", "finalize">>

\* C34: when the classifier falls back to "food" because the returned
\* category is not one of the four, metadata records that the default was
\* applied: it differs from the metadata left when "food" itself is returned.
C34_DefaultRecorded ==
    [][(/\ pc = "classifier"
        /\ outcome'["classifier"] = "ok"
        /\ lower(Last(calls'.llm_classifier).category) \notin VALID_CATEGORIES) =>
          /\ category' = "food"
          /\ metadata' #
                classifier_node(State, [kind |-> "json", category |-> "food"]).metadata]_vars

\* C35: whenever the graph routes a record to research, _should_research is
\* true of it and _build_search_queries gives at least one query, so
\* research_node takes neither of its skip branches; and after a
\* classification that did not fail, the route is "research" exactly when
\* _should_research is true.
C35_RouteAgreesWithResearch ==
    /\ pc = "research" =>
          /\ _should_research(State)
          /\ _build_search_queries(State) # <<>>
    /\ (/\ executed # <<>> /\ Last(executed) = "classifier"
        /\ next_action # "error") =>
          (pc = "research" <=> _should_research(State))
    /\ outcome["research"] # "none" =>
          (calls.search # <<>> /\ research_notes # None)

\* C35 witness: a food item without a brand is about to enter research.
C35_Witness ==
    /\ pc = "research"
    /\ category = "food"
    /\ processed_data.brand = None

\* C36: when insert_item raises or returns a row without an id, save submits
\* no reminder; when insert_item raises, save posts no webhook either.
C36_NoItemNoReminder ==
    [][pc = "save" =>
          /\ (calls'.insert_item # <<>> /\ Last(calls'.insert_item) # "row") =>
                calls'.insert_reminder = <<>>
          /\ (calls'.insert_item # <<>> /\ Last(calls'.insert_item) = "raise") =>
                calls'.webhook = 0]_vars

\* C36 witness: the item write raised in a run that had a dated reminder to
\* submit and a webhook to post, and neither call was made.
C36_Witness ==
    /\ pc = "finalize"
    /\ calls.insert_item = <<"raise">>
    /\ HasDatedReminder(processed_data)
    /\ n8n_webhook_url = WebhookUrl
    /\ next_action = "finalize"
    /\ calls.insert_reminder = <<>>
    /\ calls.webhook = 0

\* C37: an insert_reminder that fails does not keep the remaining candidate
\* reminders from being submitted and does not set save_error; the record
\* save returns carries the item id and save_node_executed.
C37_ReminderFailureIsLocal ==
    [][(/\ pc = "save"
        /\ Last(calls'.insert_item) = "row"
        /\ processed_data.reminders # <<>>) =>
          LET pd == processed_data
              subs == calls'.insert_reminder
              kept == SelectSeq(pd.reminders,
                                LAMBDA r : DueDateFor(r, pd) # None)
          IN  /\ Len(subs) = Len(kept)
              /\ \A i \in 1..Len(subs) : subs[i].data.label = kept[i].label
              /\ metadata'.save_error = None
              /\ metadata'.item_id = ItemId
              /\ metadata'.save_node_executed]_vars

\* C37 witness: the first of two reminders failed to insert, the second was
\* submitted and stored, and save ended without save_error.
C37_Witness ==
    /\ pc = "finalize"
    /\ Len(calls.insert_reminder) = 2
    /\ calls.insert_reminder[1].result = "failed"
    /\ calls.insert_reminder[2].result = "stored"
    /\ metadata.save_error = None
    /\ metadata.item_id = ItemId

\* C38: a reminder is submitted only in a run whose item write, the only
\* one of the run, returned a row with an id, and it carries that id as its
\* item_id; insert_item is called at most once in a run.
C38_RemindersFollowItem ==
    /\ Len(calls.insert_item) <= 1
    /\ calls.insert_reminder # <<>> =>
          /\ calls.insert_item = <<"row">>
          /\ metadata.item_id = ItemId
          /\ \A i \in 1..Len(calls.insert_reminder) :
                calls.insert_reminder[i].data.item_id = metadata.item_id

\* C38 witness: a run wrote its item and then stored a reminder tagged with
\* the item's id.
C38_Witness ==
    /\ pc = "END"
    /\ calls.insert_item = <<"row">>
    /\ Len(calls.insert_reminder) = 1
    /\ calls.insert_reminder[1].result = "stored"
    /\ calls.insert_reminder[1].data.item_id = ItemId

\* C39: no node changes raw_input; only the classifier changes category;
\* only vision and research change processed_data, and research changes at
\* most its brand and expiry_date; save, finalize and error change nothing
\* but metadata and next_action.
C39_Frame ==
    [][/\ raw_input' = raw_input
       /\ category' # category => pc = "classifier"
       /\ processed_data' # processed_data => pc \in {"vision", "research"}
       /\ pc = "research" =>
             processed_data' = [processed_data EXCEPT
                                   !.brand = processed_data'.brand,
                                   !.expiry_date = processed_data'.expiry_date]
       /\ pc \in {"save", "finalize", "error"} =>
             /\ processed_data' = processed_data
             /\ category' = category
             /\ research_notes' = research_notes]_vars

\* C39 witness: a run ended in which research filled in the brand and save
\* stored the item with a reminder.
C39_Witness ==
    /\ pc = "END"
    /\ executed = <<"vision", "classifier", "research", "save", "finalize">>
    /\ processed_data.brand = "Sony"
    /\ processed_data.reminders # <<>>
    /\ metadata.item_id = ItemId

\* C40: in the final record of a run, metadata.error and metadata.error_node
\* are present only if the run ended in the error node: a run that ended in
\* finalize with next_action "complete" has neither, whatever metadata the
\* caller supplied and whatever failed on the way.
C40_ErrorOnlyAfterErrorNode ==
    pc = "END" =>
        /\ (metadata.error # None \/ metadata.error_node # None) =>
              Last(executed) = "error"
        /\ (Last(executed) = "finalize" /\ next_action = "complete") =>
              (metadata.error = None /\ metadata.error_node = None)

====
